---- MODULE Spec2Model ----
(***************************************************************************)
(* Chunked dataset generation of the SynthX.AI backend: the task registry  *)
(* (TaskManager), the LangGraph chunk loop of DataAgent (generate_chunk -> *)
(* dedupe_chunk -> finalise), the Chroma-backed duplicate store, the       *)
(* hybrid numeric injector, the output writer and the live statistics;     *)
(* and the Copilot generation path: CopilotClient.generate_data_chunk with *)
(* its retry wrapper and fallback, driven by the generation service in     *)
(* sub-batches.                                                            *)
(*                                                                         *)
(* Every coroutine of the program is cut at its await points: one action   *)
(* is the code that runs between two awaits of one task's runner.          *)
(***************************************************************************)
EXTENDS Integers, Sequences, FiniteSets, TLC

\* ------------------------------------------------------------------ bounds
\* Largest row_count a request asks for (the code accepts every row_count > 0).
MaxRowCount == 2
\* settings.max_rows_per_chunk as used by the model (500 in config.py).
MaxRowsPerChunk == 2
\* Cap on the usage tokens one task accumulates (the code's counter is unbounded).
MaxTokens == 1
\* settings.copilot.max_rows_per_call as used by the model.
MaxRowsPerCall == 2
\* Largest number of rows one chunk of the generation service is asked for.
MaxChunkRows == 9
\* Number of generate_column calls a run of the injector model makes.
MaxCalls == 3

\* ------------------------------------------------------------ the universe
Tasks == {"t1", "t2"}

None == "None"

\* HybridNumericGenerator.__init__: seed: int = 42
Seed == 42

\* A row is a Python dict: a sequence of <<name, value>> pairs in insertion order.
\* A value is <<"str", n>> (the n-th text), <<"int", n>> (a whole number),
\* <<"e4", n>> (the float n / 10000) or <<"obj", pairs>> (a nested dict).
RowA == << <<"a", <<"str", 1>> >>, <<"b", <<"int", 1>> >> >>
\* RowA with its fields inserted in the other order.
RowA2 == << <<"b", <<"int", 1>> >>, <<"a", <<"str", 1>> >> >>
RowB == << <<"a", <<"str", 2>> >>, <<"b", <<"int", 1>> >> >>

RowUniverse == {RowA, RowA2, RowB}

\* The schema every request of the model carries: SchemaProposal.columns.
SchemaColumns == << [name |-> "a", data_type |-> "string"], [name |-> "b", data_type |-> "Integer"] >>

\* Position of a field name in the lexicographic order json.dumps(sort_keys=True) uses.
NameRank(n) == CASE n = "a" -> 1 [] n = "b" -> 2 [] n = "x" -> 3 [] n = "y" -> 4 [] OTHER -> 5

\* --------------------------------------------------------- sequence helpers
Range(s) == {s[i] : i \in DOMAIN s}

RECURSIVE SeqsUpTo(_, _)
SeqsUpTo(S, n) == IF n = 0 THEN {<<>>} ELSE LET shorter == SeqsUpTo(S, n - 1) IN shorter \cup {Append(s, x) : s \in {q \in shorter : Len(q) = n - 1}, x \in S}

Min(a, b) == IF a < b THEN a ELSE b

RECURSIVE Sum(_)
Sum(s) == IF s = <<>> THEN 0 ELSE Head(s) + Sum(Tail(s))

Max(a, b) == IF a > b THEN a ELSE b

\* ------------------------------------------------------------ row hashing
RECURSIVE InsertSorted(_, _)
InsertSorted(pair, sorted) == IF sorted = <<>> THEN <<pair>> ELSE IF NameRank(pair[1]) < NameRank(Head(sorted)[1]) THEN <<pair>> \o sorted ELSE <<Head(sorted)>> \o InsertSorted(pair, Tail(sorted))

RECURSIVE SortByName(_)
SortByName(row) == IF row = <<>> THEN <<>> ELSE InsertSorted(Head(row), SortByName(Tail(row)))

RECURSIVE _serialize(_)
\* json.dumps on a value: a nested dict is written as the row itself is.
dumps(value) == IF value[1] = "obj" THEN <<"obj", _serialize(value[2])>> ELSE value

\* json.dumps(row, sort_keys=True) sorting the keys of the row only, not those
\* of the dicts nested in it.
_serialize_outer_keys(row) == SortByName(row)

\* DeduplicationTool._serialize: json.dumps(row, sort_keys=True), which sorts the
\* keys of the row and of every dict nested in it.
_serialize(row) == SortByName([i \in DOMAIN row |-> <<row[i][1], dumps(row[i][2])>>])

\* ChromaVectorStore._hash_row: sha256 of the serialised text (collision free).
_hash_row(raw) == <<"sha256", raw>>

\* The serialised form of every row of a list, in order.
Serialized(rows) == [i \in DOMAIN rows |-> _serialize(rows[i])]

\* ChromaVectorStore.find_duplicates: the serialised rows whose id the collection holds.
find_duplicates(collection, serialized) == SelectSeq(serialized, LAMBDA raw : _hash_row(raw) \in collection)

\* ChromaVectorStore.upsert_rows: the collection after upserting the rows' ids.
upsert_rows(collection, raws) == collection \cup {_hash_row(raws[i]) : i \in DOMAIN raws}

\* DeduplicationTool.filter_new_rows, line 23: the rows whose serialised form is no known duplicate.
FilteredRows(rows, duplicate_set) == SelectSeq(rows, LAMBDA row : _serialize(row) \notin duplicate_set)

\* DeduplicationTool.filter_new_rows, line 24: the serialised rows handed to upsert_rows.
RowsToUpsert(rows, duplicate_set) == SelectSeq(Serialized(rows), LAMBDA raw : raw \notin duplicate_set)

\* -------------------------------------------------- hybrid numeric generator
\* str.lower() on the declared types and formats the model uses.
Lower(s) == CASE s = "Integer" -> "integer" [] s = "CSV" -> "csv" [] OTHER -> s

\* The keywords of should_handle that occur as a substring of a lower-cased type.
KeywordsIn(data_type) ==
    CASE data_type = "integer" -> {"int"} [] data_type = "float" -> {"float"} [] data_type = "decimal" -> {"decimal"}
      [] data_type = "numeric" -> {"numeric"} [] data_type = "interval" -> {"int"} [] data_type = "floating point" -> {"float", "int"}
      [] OTHER -> {}

\* HybridNumericGenerator.should_handle
should_handle(column) == KeywordsIn(Lower(column.data_type)) \cap {"int", "float", "numeric", "decimal"} # {}

\* The k-th rng.uniform(0, 1) of random.Random(seed), in units of 1e-4: a fixed
\* function of (seed, k) standing for the Mersenne Twister stream.
UniformE4(seed, k) == (seed * 7919 + k * 1049) % 10000

\* HybridNumericGenerator.generate_column: int(base * 1000 + idx) for an int type,
\* round(.., 4) in units of 1e-4 for the fractional branches.
generate_column(column, row_count, offset) ==
    LET data_type == Lower(column.data_type)
        value(idx) == LET base == UniformE4(Seed + offset, idx)
                      IN IF "int" \in KeywordsIn(data_type) THEN <<"int", (base \div 10) + idx>>
                         ELSE IF KeywordsIn(data_type) \cap {"decimal", "float"} # {} THEN <<"e4", base * 100 + idx * 1000>>
                         ELSE <<"e4", base * 100>>
    IN [i \in 1..row_count |-> value(i - 1)]

\* HybridNumericGenerator.generate_chunk: a dict column name -> values, in column order.
RECURSIVE generate_chunk(_, _, _)
generate_chunk(columns, row_count, offset) ==
    IF columns = <<>> THEN <<>>
    ELSE LET column == Head(columns)
             rest == generate_chunk(Tail(columns), row_count, offset)
         IN IF should_handle(column) THEN << <<column.name, generate_column(column, row_count, offset)>> >> \o rest ELSE rest

\* row[name] = value on a Python dict: an existing key keeps its place, a new key goes last.
SetItem(row, name, value) ==
    IF \E i \in DOMAIN row : row[i][1] = name
    THEN [i \in DOMAIN row |-> IF row[i][1] = name THEN <<name, value>> ELSE row[i]]
    ELSE Append(row, <<name, value>>)

\* DatasetBuilder.merge_hybrid_values
RECURSIVE merge_hybrid_values(_, _)
RECURSIVE merge_hybrid_values_zip(_, _)
\* merge_hybrid_values pairing rows with values as zip does: a row without a value is dropped.
merge_hybrid_values_zip(rows, hybrid_values) ==
    IF hybrid_values = <<>> THEN rows
    ELSE LET column_name == Head(hybrid_values)[1]
             values == Head(hybrid_values)[2]
             merged == [idx \in 1..(IF Len(values) < Len(rows) THEN Len(values) ELSE Len(rows)) |-> SetItem(rows[idx], column_name, values[idx])]
         IN merge_hybrid_values_zip(merged, Tail(hybrid_values))

merge_hybrid_values(rows, hybrid_values) ==
    IF hybrid_values = <<>> THEN rows
    ELSE LET column_name == Head(hybrid_values)[1]
             values == Head(hybrid_values)[2]
             merged == [idx \in DOMAIN rows |-> IF idx <= Len(values) THEN SetItem(rows[idx], column_name, values[idx]) ELSE rows[idx]]
         IN merge_hybrid_values(merged, Tail(hybrid_values))

\* ------------------------------------------------------------ output writer
\* The file f"{task_id}.{fmt}" below the output directory.
FilePath(task_id, fmt) == <<task_id, fmt>>

\* write_outputs with a _write_csv that writes an empty file for an empty list.
RECURSIVE WriteFrom_empty_csv(_, _, _, _, _, _)
WriteFrom_empty_csv(task_id, rows, formats, i, fail_at, acc) ==
    IF i > Len(formats) THEN acc
    ELSE LET fmt == Lower(formats[i])
         IN IF fmt \notin {"csv", "json"} THEN WriteFrom_empty_csv(task_id, rows, formats, i + 1, fail_at, acc)
            ELSE IF i = fail_at THEN [acc EXCEPT !.error = "OSError"]
            ELSE WriteFrom_empty_csv(task_id, rows, formats, i + 1, fail_at,
                                     [acc EXCEPT !.output_map = [f \in DOMAIN acc.output_map \cup {fmt} |-> FilePath(task_id, f)],
                                                 !.written = acc.written \cup {FilePath(task_id, fmt)}])

\* DatasetBuilder.write_outputs over formats[i..]: the output map built so far, the
\* files written, and the error that stopped it (None when every format was written).
\* fail_at is the index of the format whose file cannot be opened (0: the disk works).
RECURSIVE WriteFrom(_, _, _, _, _, _)
WriteFrom(task_id, rows, formats, i, fail_at, acc) ==
    IF i > Len(formats) THEN acc
    ELSE LET fmt == Lower(formats[i])
         IN IF fmt \notin {"csv", "json"} THEN WriteFrom(task_id, rows, formats, i + 1, fail_at, acc)
            ELSE IF fmt = "csv" /\ rows = <<>> THEN [acc EXCEPT !.error = "No rows available for CSV export"]
            ELSE IF i = fail_at THEN [acc EXCEPT !.error = "OSError"]
            ELSE WriteFrom(task_id, rows, formats, i + 1, fail_at,
                           [acc EXCEPT !.output_map = [f \in DOMAIN acc.output_map \cup {fmt} |-> FilePath(task_id, f)],
                                       !.written = acc.written \cup {FilePath(task_id, fmt)}])

write_outputs(task_id, rows, formats, fail_at) == WriteFrom(task_id, rows, formats, 1, fail_at, [output_map |-> <<>>, written |-> {}, error |-> None])

\* -------------------------------------------------------------------- state
\* pc:         where each task's request handler / background runner stands
\* tasks:      TaskManager._tasks, task id -> DatasetGenerationTask
\* request:    the DatasetGenerationRequest payload of each task
\* state:      the GenerationState of each task's DataAgent run (without
\*             chunk_index, a counter the code increments and never reads)
\* frame:      values a coroutine holds across an await (duplicate_set of
\*             filter_new_rows, the arguments of progress_callback, the
\*             exception travelling to the runner's except clause, the
\*             arguments _dedupe_chunk called the numeric generator with)
\* collection: the ids held by the Chroma collection
\* stats:      StatsService._stats
\* files:      the files below generated_data_dir
VARIABLES pc, tasks, request, state, frame, collection, stats, files

\* copilot:    one call of CopilotClient.generate_data_chunk: its arguments, the
\*             attempts of the retry wrapper, the parsed data, the outcome
\* job:        one chunk of the generation service: the rows still to fetch and
\*             the calls it made to its provider client
\* injector:   the calls of HybridNumericGenerator.generate_column made so far on
\*             the one generator the tasks share: caller, arguments, values
VARIABLES copilot, job, injector

\* lock:       TaskManager._lock: the task whose coroutine holds it, or None
\* chroma:     the ChromaVectorStore singleton: "uninitialised" (_client and
\*             _collection are None), "client_only" (ainit failed after it set
\*             _client) or "ready" (both set, as on_startup leaves it)
\* store:      ChromaVectorStore._lock (the caller holding it, or None), where each
\*             caller of ainit / aclose stands, and how many clients and
\*             collection handles were created since the store was last closed
\* http:       one request to a read route (status or download) and its response
\* probe:      one direct call of a component's operation and its outcome
VARIABLES lock, chroma, store, http, probe

vars == <<pc, tasks, request, state, frame, collection, stats, files, copilot, job, injector, lock, chroma, store, http, probe>>

\* DatasetGenerationRequest.output_formats as the route accepts them (lower-cased
\* they are within ALLOWED_FORMATS).
FormatLists == {<<"CSV">>, <<"json", "csv">>}

NoRequest == [row_count |-> 1, output_formats |-> <<>>, use_hybrid_numeric |-> FALSE]

NoState == [remaining_rows |-> 0, chunk_size |-> 0, rows |-> <<>>, tokens_data |-> 0, chunk_rows |-> <<>>, output_files |-> <<>>, last_reported_tokens |-> 0]

NoFrame == [duplicate_set |-> {}, increment |-> 0, delta |-> 0, exc |-> None, hybrid |-> [called |-> FALSE, row_count |-> 0, offset |-> 0]]

\* DatasetGenerationTask(task_id=task_id, status=QUEUED) with the model's defaults.
DatasetGenerationTask == [status |-> "queued", progress_rows |-> 0, total_rows |-> 0, error_message |-> None, output_files |-> <<>>, tokens_schema |-> 0, tokens_data |-> 0]

\* _InternalStats()
InternalStats == [generated_rows |-> 0, total_schema_tokens |-> 0, total_data_tokens |-> 0, tasks_running |-> 0, tasks_completed |-> 0, tasks_failed |-> 0]

\* No exception: the value of a slot that holds the exception a call ended with.
NoException == <<"None", "">>

\* No generate_data_chunk call has been made.
NoCall == [pc |-> "idle", num_rows |-> 0, effective_rows |-> 0, prompts |-> <<>>, errors |-> <<>>, data |-> <<"nothing", <<>>>>, invoke_raised |-> NoException, fallback_asked |-> <<>>, result |-> <<>>, raised |-> NoException]

\* No chunk has been asked of the generation service.
NoJob == [pc |-> "idle", max_rows |-> 0, total_rows |-> 0, remaining |-> 0, calls |-> <<>>, returned |-> <<>>, rows_generated |-> 0]

\* No generate_column call has been made.
NoInjection == <<>>

\* No request to a read route has been made.
NoRead == [pc |-> "idle", route |-> "none", task_id |-> "none", format |-> "none", response |-> <<"none", "none">>]

\* No operation has been called directly.
\* The callers of the store's ainit and aclose (startup and shutdown handlers,
\* or anything else that holds the store).
StoreCallers == {"c1", "c2"}

\* ChromaVectorStore._lock and the callers inside ainit or aclose, with the number
\* of clients and collection handles created since the store was last closed. The
\* application starts with the store initialised by on_startup.
StartedStore == [lock |-> None, pc |-> [c \in StoreCallers |-> "idle"], clients |-> 1, collections |-> 1]

NoProbe == [op |-> "none", args |-> <<>>, result |-> <<>>, raised |-> NoException]

Init ==
    /\ pc = [t \in Tasks |-> "idle"]
    /\ tasks = <<>>
    /\ request = [t \in Tasks |-> NoRequest]
    /\ state = [t \in Tasks |-> NoState]
    /\ frame = [t \in Tasks |-> NoFrame]
    /\ collection = {}
    /\ stats = InternalStats
    /\ files = {}
    /\ copilot = NoCall
    /\ job = NoJob
    /\ injector = NoInjection
    /\ lock = None
    /\ chroma = "ready"
    /\ store = StartedStore
    /\ http = NoRead
    /\ probe = NoProbe

\* ------------------------------------------------------------ control flow
\* A step of a task's runner moves its place; it touches neither the Copilot
\* client nor the generation service nor a running generate_column call, it ends
\* with the registry lock as it found it (every `async with self._lock` block is
\* left before the next await), and it leaves the store's handles and the
\* requests of other callers alone.
Goto(t, label) ==
    /\ pc' = [pc EXCEPT ![t] = label]
    /\ UNCHANGED <<copilot, job, injector, lock, chroma, store, http, probe>>

\* An exception leaves the graph and reaches the except clause of runner(): the
\* GenerationState and the locals of the unwound coroutines are dropped with it.
Raise(t, text) ==
    /\ frame' = [frame EXCEPT ![t] = [NoFrame EXCEPT !.exc = text]]
    /\ state' = [state EXCEPT ![t] = NoState]
    /\ Goto(t, "mark_failed")

\* DataAgent._should_continue
_should_continue(st) == st.remaining_rows > 0

\* A conditional edge that ends the loop as soon as a row was accepted.
AfterDedupe_once_rows(st) == IF st.rows = <<>> THEN "generate_chunk" ELSE "finalise"

\* The conditional edge out of dedupe_chunk.
AfterDedupe(st) == IF _should_continue(st) THEN "generate_chunk" ELSE "finalise"

\* ----------------------------------------------------- request and registry
\* The payloads a caller may submit.
Requests == [row_count : 1..MaxRowCount, output_formats : FormatLists, use_hybrid_numeric : BOOLEAN]

\* POST /datasets/generate up to the registry update of TaskManager.create_task,
\* for a payload out of `payloads`.
CreateTaskFrom(t, payloads) ==
    /\ pc[t] = "idle"
    /\ lock = None
    /\ \E payload \in payloads : request' = [request EXCEPT ![t] = payload]
    /\ tasks' = (t :> DatasetGenerationTask) @@ tasks
    /\ Goto(t, "track_task_created")
    /\ UNCHANGED <<state, frame, collection, stats, files>>

create_task(t) == CreateTaskFrom(t, Requests)

\* StatsService.track_task_created (it only stamps last_update_ns); the route then
\* schedules runner() and returns.
track_task_created(t) ==
    /\ pc[t] = "track_task_created"
    /\ Goto(t, "mark_running")
    /\ UNCHANGED <<tasks, request, state, frame, collection, stats, files>>

\* mark_running awaiting the metrics call inside its `async with self._lock` block:
\* the coroutine is suspended with the lock held.
mark_running_holding_lock(t) ==
    /\ pc[t] = "mark_running"
    /\ lock = None
    /\ tasks' = [tasks EXCEPT ![t].status = "running", ![t].total_rows = request[t].row_count]
    /\ pc' = [pc EXCEPT ![t] = "track_task_running"]
    /\ lock' = t
    /\ UNCHANGED <<request, state, frame, collection, stats, files, copilot, job, injector, chroma, store, http, probe>>

\* TaskManager.mark_running, the registry update.
mark_running(t) ==
    /\ pc[t] = "mark_running"
    /\ lock = None
    /\ tasks' = [tasks EXCEPT ![t].status = "running", ![t].total_rows = request[t].row_count]
    /\ Goto(t, "track_task_running")
    /\ UNCHANGED <<request, state, frame, collection, stats, files>>

\* StatsService.track_task_running
track_task_running(t) ==
    /\ pc[t] = "track_task_running"
    /\ stats' = [stats EXCEPT !.tasks_running = @ + 1]
    /\ Goto(t, "generate_dataset")
    /\ UNCHANGED <<tasks, request, state, frame, collection, files>>

\* ------------------------------------------------------------- the chunk loop
\* DataAgent.generate_dataset: the initial GenerationState handed to the graph.
generate_dataset(t) ==
    /\ pc[t] = "generate_dataset"
    /\ state' = [state EXCEPT ![t] = [remaining_rows |-> request[t].row_count,
                                      chunk_size |-> Min(MaxRowsPerChunk, request[t].row_count),
                                      rows |-> <<>>, tokens_data |-> 0, chunk_rows |-> <<>>,
                                      output_files |-> <<>>, last_reported_tokens |-> 0]]
    /\ Goto(t, "generate_chunk")
    /\ UNCHANGED <<tasks, request, frame, collection, stats, files>>

\* requested of DataAgent._generate_chunk
Requested(st) == Min(st.chunk_size, st.remaining_rows)

\* DataAgent._generate_chunk up to the await of llm.ainvoke.
llm_ainvoke(t) ==
    /\ pc[t] = "generate_chunk"
    /\ IF Requested(state[t]) <= 0
       THEN /\ state' = [state EXCEPT ![t].chunk_rows = <<>>]
            /\ Goto(t, "dedupe_chunk")
       ELSE /\ Goto(t, "llm")
            /\ UNCHANGED state
    /\ UNCHANGED <<tasks, request, frame, collection, stats, files>>

\* The row lists a provider response may carry for a request of `requested` rows:
\* every non-empty list of fewer rows, as many rows, or one row more than asked for.
ProviderResponses(requested) == {rows \in SeqsUpTo(RowUniverse, requested + 1) : rows # <<>>}

\* _generate_chunk taking the number of rows it asked for off remaining_rows,
\* whatever the number of rows in the response.
GenerateChunkFrom_counts_requested(t, responses) ==
    /\ pc[t] = "llm"
    /\ \E rows \in responses, total_tokens \in 0..1 :
          /\ state[t].tokens_data + total_tokens <= MaxTokens
          /\ state' = [state EXCEPT ![t].chunk_rows = rows,
                                    ![t].remaining_rows = Max(@ - Requested(state[t]), 0),
                                    ![t].tokens_data = @ + total_tokens]
    /\ Goto(t, "dedupe_chunk")
    /\ UNCHANGED <<tasks, request, frame, collection, stats, files>>

\* DataAgent._generate_chunk from the response of the provider on.
GenerateChunkFrom(t, responses) ==
    /\ pc[t] = "llm"
    /\ \E rows \in responses, total_tokens \in 0..1 :
          /\ state[t].tokens_data + total_tokens <= MaxTokens
          /\ state' = [state EXCEPT ![t].chunk_rows = rows,
                                    ![t].remaining_rows = Max(@ - Len(rows), 0),
                                    ![t].tokens_data = @ + total_tokens]
    /\ Goto(t, "dedupe_chunk")
    /\ UNCHANGED <<tasks, request, frame, collection, stats, files>>

_generate_chunk(t) == GenerateChunkFrom(t, ProviderResponses(Requested(state[t])))

\* What _generate_chunk raises: the provider call fails, the parser rejects the
\* text, or the payload is no list.
GenerateErrors == {"ProviderError", "Generated rows payload must be a list"}

\* _generate_chunk tracking the usage of a response before it parses it.
_generate_chunk_raise_counts_usage(t) ==
    /\ pc[t] = "llm"
    /\ \E text \in GenerateErrors : Raise(t, text)
    /\ stats' = [stats EXCEPT !.total_data_tokens = @ + 1]
    /\ UNCHANGED <<tasks, request, collection, files>>

\* _generate_chunk ending at `await self.llm.ainvoke`, `self._parser.parse` or the
\* isinstance test: nothing was written to the state before.
_generate_chunk_raise(t) ==
    /\ pc[t] = "llm"
    /\ \E text \in GenerateErrors : Raise(t, text)
    /\ UNCHANGED <<tasks, request, collection, stats, files>>

\* filter_new_rows taking a store that cannot answer for a store without duplicates.
_dedupe_chunk_find_no_duplicates(t) ==
    /\ pc[t] = "dedupe_chunk"
    /\ IF state[t].chunk_rows = <<>>
       THEN /\ Goto(t, AfterDedupe(state[t]))
            /\ UNCHANGED frame
       ELSE /\ frame' = [frame EXCEPT ![t].duplicate_set = IF chroma = "ready" THEN Range(find_duplicates(collection, Serialized(state[t].chunk_rows))) ELSE {}]
            /\ Goto(t, "upsert_rows")
    /\ UNCHANGED <<tasks, request, state, collection, stats, files>>

\* DataAgent._dedupe_chunk and filter_new_rows up to the answer of find_duplicates.
_dedupe_chunk_find(t) ==
    /\ pc[t] = "dedupe_chunk"
    /\ IF state[t].chunk_rows = <<>>
       THEN /\ Goto(t, AfterDedupe(state[t]))
            /\ UNCHANGED frame
       ELSE /\ chroma = "ready"
            /\ frame' = [frame EXCEPT ![t].duplicate_set = Range(find_duplicates(collection, Serialized(state[t].chunk_rows)))]
            /\ Goto(t, "upsert_rows")
    /\ UNCHANGED <<tasks, request, state, collection, stats, files>>

\* find_duplicates fails: the collection is not initialised or cannot be reached.
find_duplicates_raise(t) ==
    /\ pc[t] = "dedupe_chunk"
    /\ state[t].chunk_rows # <<>>
    /\ Raise(t, "Chroma collection not initialised")
    /\ UNCHANGED <<tasks, request, collection, stats, files>>

\* _dedupe_chunk calling the generator with its default offset for every chunk.
HybridCall_default_offset(st, filtered) == [called |-> TRUE, row_count |-> Len(filtered), offset |-> 0]

\* The arguments of self._hybrid_generator.generate_chunk in _dedupe_chunk:
\* row_count=len(filtered), offset=len(state["rows"]).
HybridCall(st, filtered) == [called |-> TRUE, row_count |-> Len(filtered), offset |-> Len(st.rows)]

\* _dedupe_chunk without lines 154-156: the rows removed as duplicates are not
\* added back to remaining_rows.
Accumulate_drops_duplicates(st, use_hybrid_numeric, filtered) ==
    LET hybrid == generate_chunk(SchemaColumns, Len(filtered), Len(st.rows))
        merged == IF use_hybrid_numeric THEN merge_hybrid_values(filtered, hybrid) ELSE filtered
    IN [st EXCEPT !.rows = @ \o merged,
                  !.last_reported_tokens = IF merged # <<>> THEN st.tokens_data ELSE @]

\* _dedupe_chunk setting last_reported_tokens for every chunk, reported or not.
Accumulate_always_marks_reported(st, use_hybrid_numeric, filtered) ==
    LET duplicates_removed == Len(st.chunk_rows) - Len(filtered)
        hybrid == generate_chunk(SchemaColumns, Len(filtered), Len(st.rows))
        merged == IF use_hybrid_numeric THEN merge_hybrid_values(filtered, hybrid) ELSE filtered
    IN [st EXCEPT !.remaining_rows = IF duplicates_removed > 0 THEN @ + duplicates_removed ELSE @,
                  !.rows = @ \o merged,
                  !.last_reported_tokens = st.tokens_data]

\* The GenerationState after lines 154-171 of _dedupe_chunk, given the rows
\* filter_new_rows returned.
Accumulate(st, use_hybrid_numeric, filtered) ==
    LET duplicates_removed == Len(st.chunk_rows) - Len(filtered)
        hybrid == generate_chunk(SchemaColumns, HybridCall(st, filtered).row_count, HybridCall(st, filtered).offset)
        merged == IF use_hybrid_numeric THEN merge_hybrid_values(filtered, hybrid) ELSE filtered
    IN [st EXCEPT !.remaining_rows = IF duplicates_removed > 0 THEN @ + duplicates_removed ELSE @,
                  !.rows = @ \o merged,
                  !.last_reported_tokens = IF merged # <<>> THEN st.tokens_data ELSE @]

\* _dedupe_chunk awaiting progress_callback for every chunk (`if progress_callback:`
\* without `and filtered`), a chunk without survivors included.
_dedupe_chunk_upsert_always_reports(t) ==
    /\ pc[t] = "upsert_rows"
    /\ LET st == state[t]
           filtered == FilteredRows(st.chunk_rows, frame[t].duplicate_set)
           after == Accumulate(st, request[t].use_hybrid_numeric, filtered)
       IN /\ RowsToUpsert(st.chunk_rows, frame[t].duplicate_set) # <<>> => chroma = "ready"
          /\ collection' = upsert_rows(collection, RowsToUpsert(st.chunk_rows, frame[t].duplicate_set))
          /\ state' = [state EXCEPT ![t] = after]
          /\ frame' = [frame EXCEPT ![t] = [NoFrame EXCEPT !.increment = Len(filtered),
                                                           !.delta = Max(st.tokens_data - st.last_reported_tokens, 0)]]
          /\ Goto(t, "mark_progress")
    /\ UNCHANGED <<tasks, request, stats, files>>

\* filter_new_rows from the answer of find_duplicates on (the upsert included), then
\* _dedupe_chunk up to the await of progress_callback.
_dedupe_chunk_upsert(t) ==
    /\ pc[t] = "upsert_rows"
    /\ LET st == state[t]
           filtered == FilteredRows(st.chunk_rows, frame[t].duplicate_set)
           after == Accumulate(st, request[t].use_hybrid_numeric, filtered)
       IN /\ RowsToUpsert(st.chunk_rows, frame[t].duplicate_set) # <<>> => chroma = "ready"
          /\ collection' = upsert_rows(collection, RowsToUpsert(st.chunk_rows, frame[t].duplicate_set))
          /\ IF filtered # <<>>
             THEN /\ state' = [state EXCEPT ![t] = after]
                  /\ frame' = [frame EXCEPT ![t] = [NoFrame EXCEPT !.increment = Len(filtered),
                                                                   !.delta = Max(st.tokens_data - st.last_reported_tokens, 0),
                                                                   !.hybrid = IF request[t].use_hybrid_numeric THEN HybridCall(st, filtered) ELSE @]]
                  /\ Goto(t, "mark_progress")
             ELSE /\ state' = [state EXCEPT ![t] = [after EXCEPT !.chunk_rows = <<>>]]
                  /\ frame' = [frame EXCEPT ![t] = NoFrame]
                  /\ Goto(t, AfterDedupe(after))
    /\ UNCHANGED <<tasks, request, stats, files>>

\* upsert_rows fails (it touches the collection only for a non-empty list).
upsert_rows_raise(t) ==
    /\ pc[t] = "upsert_rows"
    /\ RowsToUpsert(state[t].chunk_rows, frame[t].duplicate_set) # <<>>
    /\ Raise(t, "Chroma collection not initialised")
    /\ UNCHANGED <<tasks, request, collection, stats, files>>

\* mark_progress counting every row of the chunk, the discarded duplicates included.
mark_progress_counts_chunk(t) ==
    /\ pc[t] = "mark_progress"
    /\ tasks' = [tasks EXCEPT ![t].progress_rows = @ + Len(state[t].chunk_rows),
                              ![t].tokens_data = @ + frame[t].delta]
    /\ Goto(t, "track_rows_generated")
    /\ UNCHANGED <<request, state, frame, collection, stats, files>>

\* mark_progress adding the increment and the tokens to every task of the registry.
mark_progress_every_task(t) ==
    /\ pc[t] = "mark_progress"
    /\ tasks' = [u \in DOMAIN tasks |-> [tasks[u] EXCEPT !.progress_rows = @ + frame[t].increment, !.tokens_data = @ + frame[t].delta]]
    /\ Goto(t, "track_rows_generated")
    /\ UNCHANGED <<request, state, frame, collection, stats, files>>

\* TaskManager.mark_progress, the registry update (called from progress_callback).
mark_progress(t) ==
    /\ pc[t] = "mark_progress"
    /\ lock = None
    /\ tasks' = [tasks EXCEPT ![t].progress_rows = @ + frame[t].increment,
                              ![t].tokens_schema = @ + 0,
                              ![t].tokens_data = @ + frame[t].delta]
    /\ Goto(t, "track_rows_generated")
    /\ UNCHANGED <<request, state, frame, collection, stats, files>>

\* _dedupe_chunk after progress_callback returned: line 173 and the conditional edge.
EndDedupe(t) ==
    /\ state' = [state EXCEPT ![t].chunk_rows = <<>>]
    /\ frame' = [frame EXCEPT ![t] = NoFrame]
    /\ Goto(t, AfterDedupe(state[t]))

\* StatsService.track_rows_generated
track_rows_generated(t) ==
    /\ pc[t] = "track_rows_generated"
    /\ stats' = [stats EXCEPT !.generated_rows = @ + frame[t].increment]
    /\ IF frame[t].delta # 0
       THEN Goto(t, "track_data_tokens") /\ UNCHANGED <<state, frame>>
       ELSE EndDedupe(t)
    /\ UNCHANGED <<tasks, request, collection, files>>

\* StatsService.track_data_tokens
track_data_tokens(t) ==
    /\ pc[t] = "track_data_tokens"
    /\ stats' = [stats EXCEPT !.total_data_tokens = @ + frame[t].delta]
    /\ EndDedupe(t)
    /\ UNCHANGED <<tasks, request, collection, files>>

\* ------------------------------------------------------------ finalisation
\* DataAgent._finalise with a working disk; generate_dataset then returns to runner().
_finalise(t) ==
    /\ pc[t] = "finalise"
    /\ LET out == write_outputs(t, state[t].rows, request[t].output_formats, 0)
       IN /\ files' = files \cup out.written
          /\ IF out.error = None
             THEN /\ state' = [state EXCEPT ![t].output_files = out.output_map]
                  /\ Goto(t, "mark_succeeded")
                  /\ UNCHANGED frame
             ELSE Raise(t, out.error)
    /\ UNCHANGED <<tasks, request, collection, stats>>

\* DataAgent._finalise when opening the file of one requested format fails.
_finalise_raise(t) ==
    /\ pc[t] = "finalise"
    /\ \E fail_at \in 1..Len(request[t].output_formats) :
          LET out == write_outputs(t, state[t].rows, request[t].output_formats, fail_at)
          IN /\ out.error # None
             /\ files' = files \cup out.written
             /\ Raise(t, out.error)
    /\ UNCHANGED <<tasks, request, collection, stats>>

\* TaskManager.mark_succeeded, the registry update, with result.get("output_files", {}).
mark_succeeded(t) ==
    /\ pc[t] = "mark_succeeded"
    /\ lock = None
    /\ tasks' = [tasks EXCEPT ![t].status = "succeeded", ![t].output_files = state[t].output_files]
    /\ Goto(t, "track_task_completed")
    /\ UNCHANGED <<request, state, frame, collection, stats, files>>

\* runner() reaching mark_failed after mark_succeeded returned (a finally clause
\* in place of the except clause).
track_task_completed_then_failed(t) ==
    /\ pc[t] = "track_task_completed"
    /\ stats' = [stats EXCEPT !.tasks_running = IF @ > 0 THEN @ - 1 ELSE @, !.tasks_completed = @ + 1]
    /\ frame' = [frame EXCEPT ![t].exc = "finally"]
    /\ Goto(t, "mark_failed")
    /\ UNCHANGED <<tasks, request, state, collection, files>>

\* StatsService.track_task_completed; runner() ends.
track_task_completed(t) ==
    /\ pc[t] = "track_task_completed"
    /\ stats' = [stats EXCEPT !.tasks_running = IF @ > 0 THEN @ - 1 ELSE @, !.tasks_completed = @ + 1]
    /\ Goto(t, "done")
    /\ UNCHANGED <<tasks, request, state, frame, collection, files>>

\* mark_failed recording the message without setting the status.
mark_failed_keeps_status(t) ==
    /\ pc[t] = "mark_failed"
    /\ tasks' = [tasks EXCEPT ![t].error_message = frame[t].exc]
    /\ Goto(t, "track_task_failed")
    /\ UNCHANGED <<request, state, frame, collection, stats, files>>

\* runner()'s except clause emptying the duplicate store before it marks the task failed.
mark_failed_clears_store(t) ==
    /\ pc[t] = "mark_failed"
    /\ lock = None
    /\ tasks' = [tasks EXCEPT ![t].status = "failed", ![t].error_message = frame[t].exc]
    /\ collection' = {}
    /\ Goto(t, "track_task_failed")
    /\ UNCHANGED <<request, state, frame, stats, files>>

\* TaskManager.mark_failed, the registry update, with str(exc).
mark_failed(t) ==
    /\ pc[t] = "mark_failed"
    /\ lock = None
    /\ tasks' = [tasks EXCEPT ![t].status = "failed", ![t].error_message = frame[t].exc]
    /\ Goto(t, "track_task_failed")
    /\ UNCHANGED <<request, state, frame, collection, stats, files>>

\* StatsService.track_task_failed; runner() ends.
\* track_task_failed counting the failure without taking the task off tasks_running.
track_task_failed_keeps_running(t) ==
    /\ pc[t] = "track_task_failed"
    /\ stats' = [stats EXCEPT !.tasks_failed = @ + 1]
    /\ Goto(t, "done")
    /\ UNCHANGED <<tasks, request, state, frame, collection, files>>

track_task_failed(t) ==
    /\ pc[t] = "track_task_failed"
    /\ stats' = [stats EXCEPT !.tasks_running = IF @ > 0 THEN @ - 1 ELSE @, !.tasks_failed = @ + 1]
    /\ Goto(t, "done")
    /\ UNCHANGED <<tasks, request, state, frame, collection, files>>

\* ------------------------------------------------------------ specifications
\* Every step of one task after its submission, but the provider's answer.
RunnerStep(t) ==
    \/ track_task_created(t)
    \/ mark_running(t)
    \/ track_task_running(t)
    \/ generate_dataset(t)
    \/ llm_ainvoke(t)
    \/ _generate_chunk_raise(t)
    \/ _dedupe_chunk_find(t)
    \/ find_duplicates_raise(t)
    \/ _dedupe_chunk_upsert(t)
    \/ upsert_rows_raise(t)
    \/ mark_progress(t)
    \/ track_rows_generated(t)
    \/ track_data_tokens(t)
    \/ _finalise(t)
    \/ _finalise_raise(t)
    \/ mark_succeeded(t)
    \/ track_task_completed(t)
    \/ mark_failed(t)
    \/ track_task_failed(t)

Next == create_task("t1") \/ RunnerStep("t1") \/ _generate_chunk("t1")

\* One task, any payload, a provider that may answer with any non-empty list of rows.
Spec == Init /\ [][Next]_vars

\* The payloads of the concurrent scenario: csv output, no numeric injection.
ConcurrentRequests == {payload \in Requests : payload.output_formats = <<"CSV">> /\ ~payload.use_hybrid_numeric}

create_task_concurrent(t) == CreateTaskFrom(t, ConcurrentRequests)

\* A provider that keeps its contract: exactly the requested number of rows.
ExactResponses(requested) == {rows \in SeqsUpTo(RowUniverse, requested) : Len(rows) = requested}

_generate_chunk_exact(t) == GenerateChunkFrom(t, ExactResponses(Requested(state[t])))

NextConcurrent == \E t \in Tasks : create_task_concurrent(t) \/ RunnerStep(t) \/ _generate_chunk_exact(t)

\* Two tasks submitted concurrently, sharing the registry, the duplicate store,
\* the statistics and the output directory.
SpecConcurrent == Init /\ [][NextConcurrent]_vars

\* A provider that answers every call with copies of one and the same row.
SameRowResponses(requested) == {rows \in SeqsUpTo({RowA}, requested) : rows # <<>>}

_generate_chunk_same_row(t) == GenerateChunkFrom(t, SameRowResponses(Requested(state[t])))

NextSameRow == create_task("t1") \/ RunnerStep("t1") \/ _generate_chunk_same_row("t1")

\* One task against the same-row provider. The event loop resumes every coroutine
\* that can run and the provider answers every call, so some step is always taken.
SpecSameRow == Init /\ [][NextSameRow]_vars /\ WF_vars(NextSameRow)

\* ------------------------------------------------- a failing metrics service
\* The text of the exception a failing StatsService.track_* call raises.
MetricsError == "metrics unavailable"

\* track_task_created raises inside create_task: the route handler ends with the
\* exception before it schedules runner().
track_task_created_raise(t) ==
    /\ pc[t] = "track_task_created"
    /\ Goto(t, "aborted")
    /\ UNCHANGED <<tasks, request, state, frame, collection, stats, files>>

\* A track_* call awaited inside the try block of runner() raises.
track_raise_in_runner(t) ==
    /\ pc[t] \in {"track_task_running", "track_rows_generated", "track_data_tokens", "track_task_completed"}
    /\ Raise(t, MetricsError)
    /\ UNCHANGED <<tasks, request, collection, stats, files>>

\* track_task_failed raises inside mark_failed: the exception leaves runner().
track_task_failed_raise(t) ==
    /\ pc[t] = "track_task_failed"
    /\ Goto(t, "done")
    /\ UNCHANGED <<tasks, request, state, frame, collection, stats, files>>

NextMetricsFail ==
    \/ Next
    \/ track_task_created_raise("t1")
    \/ track_raise_in_runner("t1")
    \/ track_task_failed_raise("t1")

\* One task with a metrics service whose calls may fail.
SpecMetricsFail == Init /\ [][NextMetricsFail]_vars

\* ---------------------------------------------------------- Copilot client
\* The variables of the task pipeline, which the Copilot path leaves alone.
pipeline == <<pc, tasks, request, state, frame, collection, stats, files, lock, chroma, store, http, probe>>

\* @retry(stop=stop_after_attempt(3), ...) on CopilotClient._invoke
StopAfterAttempt == 3

CopilotAPIError(msg) == <<"CopilotAPIError", msg>>

\* json.JSONDecodeError, raised by json.loads(repaired) in _extract_json.
JSONDecodeError == <<"JSONDecodeError", "Expecting value">>

\* JSON null / Python None as a cell value.
Null == <<"null", 0>>

\* DataSchema.fields of the schema every call of the model carries: the name of
\* each field and its constraints.default.
CopilotFields == << [name |-> "a", default |-> Null], [name |-> "b", default |-> <<"int", 0>>] >>

\* Elements of a JSON array the remote may answer with: an object with exactly the
\* schema's fields, an object with a foreign key and without field b, a number.
ObjFull == <<"object", << <<"a", <<"str", 1>> >>, <<"b", <<"int", 1>> >> >> >>

ObjOther == <<"object", << <<"z", <<"str", 2>> >>, <<"a", <<"str", 2>> >> >> >>

NotAnObject == <<"number", <<>> >>

Elements == {ObjFull, ObjOther, NotAnObject}

\* What one attempt of _invoke raises: _post turns an httpx.HTTPError into a
\* CopilotAPIError, the envelope has no choices, the message has no content, or
\* the text is no JSON and json.loads rejects the repaired text as well.
AttemptFailures == {CopilotAPIError("HTTPError"), CopilotAPIError("Copilot returned no choices"), CopilotAPIError("Copilot response missing content"), JSONDecodeError}

\* What one attempt of _invoke returns when asked for effective_rows rows: a JSON
\* array of up to one element more than asked for, a JSON object, or the string
\* json_repair makes of a text that is no JSON.
AttemptData(effective_rows) == {<<"array", elems>> : elems \in SeqsUpTo(Elements, effective_rows + 1)} \cup {<<"object", <<>> >>, <<"string", <<>> >>}

\* dict.get(name): the value under the key, None when the key is absent.
Get(pairs, name) == IF \E i \in DOMAIN pairs : pairs[i][1] = name THEN pairs[CHOOSE i \in DOMAIN pairs : pairs[i][1] = name][2] ELSE Null

\* _coerce_row handing the remote's object on as it came.
_coerce_row_as_received(fields, row) == row[2]

\* CopilotClient._coerce_row on an object: one entry per schema field, in schema
\* order, a missing or null value replaced by the field's default if it has one.
_coerce_row(fields, row) ==
    [i \in DOMAIN fields |->
        LET value == Get(row[2], fields[i].name)
        IN <<fields[i].name, IF value = Null /\ fields[i].default # Null THEN fields[i].default ELSE value>>]

\* s[:n]
Slice(s, n) == SubSeq(s, 1, Min(n, Len(s)))

\* The fallback generator's generate_data_chunk: num_rows rows, each with a value
\* for every field of the schema, the same rows for the same arguments.
fallback_generate_data_chunk(fields, num_rows) == [i \in 1..num_rows |-> [j \in DOMAIN fields |-> <<fields[j].name, <<"fallback", i>> >>]]

\* generate_data_chunk asking for num_rows rows whatever the ceiling.
generate_data_chunk_unclamped(num_rows) ==
    /\ copilot.pc = "idle"
    /\ copilot' = [NoCall EXCEPT !.pc = "invoke", !.num_rows = num_rows, !.effective_rows = num_rows]
    /\ UNCHANGED <<pipeline, job, injector>>

\* CopilotClient.generate_data_chunk up to the call of _invoke.
generate_data_chunk(num_rows) ==
    /\ copilot.pc = "idle"
    /\ copilot' = [NoCall EXCEPT !.pc = "invoke", !.num_rows = num_rows, !.effective_rows = Min(num_rows, MaxRowsPerCall)]
    /\ UNCHANGED <<pipeline, job, injector>>

\* The retry wrapper wrapping the last failure in a RetryError (reraise left out).
RetryWrapsLastFailure(errors, exc) == IF Len(errors) < StopAfterAttempt THEN [pc |-> "invoke", invoke_raised |-> NoException] ELSE [pc |-> "invoke_raised", invoke_raised |-> <<"RetryError", exc[1]>>]

\* The retry wrapper after an attempt raised exc: the next place of the call and
\* the exception that leaves the wrapper (reraise=True: the attempt's own).
Retry(errors, exc) == IF Len(errors) < StopAfterAttempt THEN [pc |-> "invoke", invoke_raised |-> NoException] ELSE [pc |-> "invoke_raised", invoke_raised |-> exc]

\* One attempt of _invoke (the prompt asks for effective_rows rows) that raises.
_invoke_raise ==
    /\ copilot.pc = "invoke"
    /\ \E exc \in AttemptFailures :
          LET errors == Append(copilot.errors, exc)
              after == Retry(errors, exc)
          IN copilot' = [copilot EXCEPT !.prompts = Append(@, copilot.effective_rows), !.errors = errors,
                                        !.pc = after.pc, !.invoke_raised = after.invoke_raised]
    /\ UNCHANGED <<pipeline, job, injector>>

\* One attempt of _invoke that returns the parsed content.
_invoke_return ==
    /\ copilot.pc = "invoke"
    /\ \E data \in AttemptData(copilot.effective_rows) :
          copilot' = [copilot EXCEPT !.prompts = Append(@, copilot.effective_rows), !.data = data, !.pc = "invoke_returned"]
    /\ UNCHANGED <<pipeline, job, injector>>

\* generate_data_chunk, the except clause: a CopilotAPIError out of _invoke is
\* answered by the fallback generator, any other exception leaves the call.
generate_data_chunk_except ==
    /\ copilot.pc = "invoke_raised"
    /\ IF copilot.invoke_raised[1] = "CopilotAPIError"
       THEN copilot' = [copilot EXCEPT !.fallback_asked = Append(@, copilot.effective_rows),
                                       !.result = fallback_generate_data_chunk(CopilotFields, copilot.effective_rows),
                                       !.pc = "returned"]
       ELSE copilot' = [copilot EXCEPT !.raised = copilot.invoke_raised, !.pc = "raised"]
    /\ UNCHANGED <<pipeline, job, injector>>

\* The rows generate_data_chunk makes of a JSON array: every element coerced,
\* then the list cut to effective_rows.
CoercedRows(elems, effective_rows) == Slice([i \in DOMAIN elems |-> _coerce_row(CopilotFields, elems[i])], effective_rows)

\* generate_data_chunk after _invoke returned: lines 194-197.
generate_data_chunk_return ==
    /\ copilot.pc = "invoke_returned"
    /\ LET data == copilot.data
       IN IF data[1] # "array"
          THEN copilot' = [copilot EXCEPT !.raised = CopilotAPIError("Copilot response was not a JSON array"), !.pc = "raised"]
          ELSE IF \E i \in DOMAIN data[2] : data[2][i][1] # "object"
          THEN copilot' = [copilot EXCEPT !.raised = CopilotAPIError("Copilot returned a non-object row"), !.pc = "raised"]
          ELSE copilot' = [copilot EXCEPT !.result = CoercedRows(data[2], copilot.effective_rows), !.pc = "returned"]
    /\ UNCHANGED <<pipeline, job, injector>>

\* The row counts a caller passes: up to one more than the ceiling.
NumRows == 1..(MaxRowsPerCall + 1)

NextCopilot ==
    \/ \E num_rows \in NumRows : generate_data_chunk(num_rows)
    \/ _invoke_raise
    \/ _invoke_return
    \/ generate_data_chunk_except
    \/ generate_data_chunk_return

\* One call of CopilotClient.generate_data_chunk against a remote that may fail
\* or answer with any content.
SpecCopilot == Init /\ [][NextCopilot]_vars

\* ------------------------------------------------------- generation service
\* StubCopilotClient.generate_data_chunk recording the number of rows it returns.
StubRecordsReturned(calls, num_rows, max_rows) == Append(calls, Min(num_rows, max_rows))

\* StubCopilotClient.generate_data_chunk, line 39: self.calls.append(num_rows)
StubCalls(calls, num_rows, max_rows) == Append(calls, num_rows)

\* StubCopilotClient.generate_data_chunk returning as many rows as it is asked for.
StubReturnsAll(num_rows, max_rows) == num_rows

\* StubCopilotClient.generate_data_chunk, line 40: rows_to_return
StubRowsToReturn(num_rows, max_rows) == Min(num_rows, max_rows)

\* The ceilings a stub client is built with.
StubCeilings == 1..(MaxRowsPerCall + 1)

\* GenerationService.generate_chunk is asked for a chunk of total_rows rows, with
\* a provider client whose ceiling is max_rows.
GenerationService_generate_chunk(max_rows, total_rows) ==
    /\ job.pc = "idle"
    /\ job' = [NoJob EXCEPT !.pc = "sub_batch", !.max_rows = max_rows, !.total_rows = total_rows, !.remaining = total_rows]
    /\ UNCHANGED <<pipeline, copilot, injector>>

\* One sub-batch: the client is called with the rows still to fetch, the rows it
\* returns are taken off the remaining count, and the chunk ends when none remain.
GenerationService_sub_batch ==
    /\ job.pc = "sub_batch"
    /\ job.remaining > 0
    /\ LET num_rows == job.remaining
           rows == StubRowsToReturn(num_rows, job.max_rows)
       IN job' = [job EXCEPT !.calls = StubCalls(@, num_rows, job.max_rows),
                             !.returned = Append(@, rows),
                             !.remaining = @ - rows,
                             !.rows_generated = @ + rows,
                             !.pc = IF job.remaining - rows > 0 THEN "sub_batch" ELSE "done"]
    /\ UNCHANGED <<pipeline, copilot, injector>>

NextJob ==
    \/ \E max_rows \in StubCeilings, total_rows \in 1..MaxChunkRows : GenerationService_generate_chunk(max_rows, total_rows)
    \/ GenerationService_sub_batch

\* One chunk of the generation service against the stub provider client.
SpecJob == Init /\ [][NextJob]_vars

\* ------------------------------------------------------------ value injector
\* The callers of the shared HybridNumericGenerator: the DataAgent runs of the tasks.
Callers == Tasks

\* The columns, row counts and offsets generate_column is called with.
InjectorColumns == {[name |-> "b", data_type |-> "Integer"], [name |-> "c", data_type |-> "float"]}

InjectorRowCounts == {1, 2}

InjectorOffsets == {0, 1}

\* generate_column drawing from one generator kept by the instance (seeded once in
\* __init__) instead of a random.Random(seed + offset) of its own.
generate_column_shared_rng(caller, column, row_count, offset) ==
    /\ Len(injector) < MaxCalls
    /\ LET drawn == Sum([i \in DOMAIN injector |-> injector[i].row_count])
           own == generate_column(column, row_count, offset)
           values == [i \in 1..row_count |-> <<own[i][1], UniformE4(Seed, drawn + i - 1)>>]
       IN injector' = Append(injector, [caller |-> caller, column |-> column, row_count |-> row_count, offset |-> offset, values |-> values])
    /\ UNCHANGED <<pipeline, copilot, job>>

\* One call of HybridNumericGenerator.generate_column by a task's run.
HybridNumericGenerator_generate_column(caller, column, row_count, offset) ==
    /\ Len(injector) < MaxCalls
    /\ injector' = Append(injector, [caller |-> caller, column |-> column, row_count |-> row_count, offset |-> offset,
                                     values |-> generate_column(column, row_count, offset)])
    /\ UNCHANGED <<pipeline, copilot, job>>

NextInjector == \E caller \in Callers, column \in InjectorColumns, row_count \in InjectorRowCounts, offset \in InjectorOffsets : HybridNumericGenerator_generate_column(caller, column, row_count, offset)

\* The tasks' runs calling generate_column on the shared generator, in any order.
SpecInjector == Init /\ [][NextInjector]_vars

\* ------------------------------------------- two tasks, healthy collaborators
\* The n-th row of a provider that never runs out of new rows.
Row(n) == << <<"a", <<"str", n>> >>, <<"b", <<"int", 1>> >> >>

\* As many different rows as two tasks can ask for together.
FreshUniverse == [n \in 1..(2 * MaxRowCount) |-> Row(n)]

\* A provider whose answer holds exactly the requested number of rows, the first
\* ones the duplicate store does not hold at the time of the answer.
FreshResponses(requested) ==
    LET unseen == SelectSeq(FreshUniverse, LAMBDA row : _hash_row(_serialize(row)) \notin collection)
    IN IF Len(unseen) >= requested THEN {SubSeq(unseen, 1, requested)} ELSE {}

_generate_chunk_fresh(t) == GenerateChunkFrom(t, FreshResponses(Requested(state[t])))

\* The steps of a task's runner while the provider, the duplicate store and the
\* disk work.
HealthyStep(t) ==
    \/ track_task_created(t)
    \/ mark_running(t)
    \/ track_task_running(t)
    \/ generate_dataset(t)
    \/ llm_ainvoke(t)
    \/ _generate_chunk_fresh(t)
    \/ _dedupe_chunk_find(t)
    \/ _dedupe_chunk_upsert(t)
    \/ mark_progress(t)
    \/ track_rows_generated(t)
    \/ track_data_tokens(t)
    \/ _finalise(t)
    \/ mark_succeeded(t)
    \/ track_task_completed(t)

NextTwoTasks == \E t \in Tasks : create_task_concurrent(t) \/ HealthyStep(t)

\* Two tasks submitted concurrently against working collaborators. The event loop
\* resumes every runner that can run: each task's steps are weakly fair.
SpecTwoTasks == Init /\ [][NextTwoTasks]_vars /\ \A t \in Tasks : WF_vars(HealthyStep(t))

\* ------------------------------------------------------------ the read routes
\* The ids a caller may ask for: the two tasks and an id that was never issued.
ReadTaskIds == Tasks \cup {"t9"}

\* The values the `format` query parameter admits (regex ^(csv|json)$).
DownloadFormats == {"csv", "json"}

\* The routes below change nothing but the request they serve.
ReadOnly == UNCHANGED <<pc, tasks, request, state, frame, collection, stats, files, copilot, job, injector, lock, chroma, store, probe>>

\* GET /datasets/{task_id}/status: the handler up to its `await task_manager.get_task`.
dataset_status(task_id) ==
    /\ http.pc \in {"idle", "done"}
    /\ http' = [NoRead EXCEPT !.pc = "get_task", !.route = "status", !.task_id = task_id]
    /\ ReadOnly

\* GET /datasets/{task_id}/download: the handler up to its `await task_manager.get_task`.
download_dataset(task_id, format) ==
    /\ http.pc \in {"idle", "done"}
    /\ http' = [NoRead EXCEPT !.pc = "get_task", !.route = "download", !.task_id = task_id, !.format = format]
    /\ ReadOnly

\* What dataset_status answers once get_task returned.
dataset_status_response(task_id) ==
    IF task_id \notin DOMAIN tasks THEN <<"404", "Task not found">>
    ELSE <<"200", tasks[task_id].status>>

\* download_dataset serving whatever file of that name lies in the output directory.
download_dataset_from_disk(task_id, format) ==
    IF FilePath(task_id, format) \in files THEN <<"200", FilePath(task_id, format)>>
    ELSE <<"404", "File not found on server">>

\* What download_dataset answers once get_task returned.
download_dataset_response(task_id, format) ==
    IF task_id \notin DOMAIN tasks \/ tasks[task_id].status # "succeeded" THEN <<"404", "Dataset not ready">>
    ELSE IF format \notin DOMAIN tasks[task_id].output_files THEN <<"404", "Requested format not available">>
    ELSE IF tasks[task_id].output_files[format] \notin files THEN <<"404", "File not found on server">>
    ELSE <<"200", tasks[task_id].output_files[format]>>

\* TaskManager.get_task for the request in flight: it takes the registry lock, reads
\* the record and releases the lock; the handler then answers without another await.
get_task ==
    /\ http.pc = "get_task"
    /\ lock = None
    /\ http' = [http EXCEPT !.pc = "done",
                            !.response = IF http.route = "status" THEN dataset_status_response(http.task_id)
                                         ELSE download_dataset_response(http.task_id, http.format)]
    /\ ReadOnly

\* The payloads of the read scenario: either list of formats, no numeric injection.
PlainRequests == {payload \in Requests : ~payload.use_hybrid_numeric}

create_task_plain(t) == CreateTaskFrom(t, PlainRequests)

NextReads ==
    \/ create_task_plain("t1")
    \/ RunnerStep("t1")
    \/ _generate_chunk_exact("t1")
    \/ create_task_concurrent("t2")
    \/ track_task_created("t2")
    \/ \E task_id \in ReadTaskIds : dataset_status(task_id)
    \/ \E task_id \in ReadTaskIds, format \in DownloadFormats : download_dataset(task_id, format)
    \/ get_task

\* One task running against an exact provider, a second one submitted whose runner
\* has not been resumed yet, and a caller of the read routes. The event loop resumes
\* the coroutine waiting in get_task whenever it can run; nothing obliges the
\* provider, the store, the metrics service or the disk ever to answer.
SpecReads == Init /\ [][NextReads]_vars /\ WF_vars(get_task)

\* ------------------------------------------------- the duplicate store's life
\* The store's operations change neither a task nor a request to a read route.
StoreOnly == UNCHANGED <<pc, tasks, request, state, frame, stats, files, copilot, job, injector, lock, http>>

\* The outcome of a direct call: the operation, its arguments, what it returned and
\* the exception it ended with.
Outcome(op, args, result, raised) == [op |-> op, args |-> args, result |-> result, raised |-> raised]

\* The exception of a Chroma call that fails (server unreachable, request refused).
ChromaError == <<"ChromaError", "chroma call failed">>

\* ChromaVectorStore.ainit: a second call returns at once; the first one connects
\* and fetches the collection.
ainit ==
    /\ store.lock = None
    /\ chroma' = IF chroma = "uninitialised" THEN "ready" ELSE chroma
    /\ store' = IF chroma = "uninitialised" THEN [store EXCEPT !.clients = 1, !.collections = 1] ELSE store
    /\ probe' = Outcome("ainit", <<>>, <<>>, NoException)
    /\ UNCHANGED collection
    /\ StoreOnly

\* ainit failing: in chromadb.HttpClient (nothing is set) or in
\* get_or_create_collection (_client is set, _collection is not).
ainit_raise ==
    /\ store.lock = None
    /\ chroma = "uninitialised"
    /\ chroma' \in {"uninitialised", "client_only"}
    /\ store' = [store EXCEPT !.clients = IF chroma' = "client_only" THEN 1 ELSE 0]
    /\ probe' = Outcome("ainit", <<>>, <<>>, ChromaError)
    /\ UNCHANGED collection
    /\ StoreOnly

\* ChromaVectorStore.aclose: without a client it returns; with one it calls
\* client.reset(), which empties the database the client is connected to, and
\* drops both handles.
aclose ==
    /\ store.lock = None
    /\ IF chroma = "uninitialised"
       THEN UNCHANGED <<chroma, collection, store>>
       ELSE /\ collection' = {}
            /\ chroma' = "uninitialised"
            /\ store' = [store EXCEPT !.clients = 0, !.collections = 0]
    /\ probe' = Outcome("aclose", <<>>, <<>>, NoException)
    /\ StoreOnly

\* aclose when client.reset() raises (the server does not allow a reset, or cannot
\* be reached): the handles stay as they are.
aclose_raise ==
    /\ store.lock = None
    /\ chroma # "uninitialised"
    /\ probe' = Outcome("aclose", <<>>, <<>>, ChromaError)
    /\ UNCHANGED <<chroma, collection, store>>
    /\ StoreOnly

\* ChromaVectorStore._get_collection: the exception it ends with.
_get_collection(handles) == IF handles = "ready" THEN NoException ELSE <<"RuntimeError", "Chroma collection not initialised">>

\* The longest list handed to the store in a direct call, and the number of
\* different rows such a list is made of.
MaxStoreInput == 2
MaxStoreRows == 3

\* The serialised rows a caller hands to the store.
StoreInputs == SeqsUpTo({_serialize(Row(n)) : n \in 1..MaxStoreRows}, MaxStoreInput)

\* ChromaVectorStore.find_duplicates called with `rows`: _get_collection first
\* (line 67), then the test for an empty list, then collection.get.
find_duplicates_call(rows) ==
    /\ probe' = IF _get_collection(chroma) # NoException THEN Outcome("find_duplicates", rows, <<>>, _get_collection(chroma))
                ELSE IF rows = <<>> THEN Outcome("find_duplicates", rows, <<>>, NoException)
                ELSE Outcome("find_duplicates", rows, find_duplicates(collection, rows), NoException)
    /\ UNCHANGED <<chroma, collection, store>>
    /\ StoreOnly

\* ChromaVectorStore.upsert_rows called with `rows`: the test for an empty list
\* first, then _get_collection, then collection.upsert.
upsert_rows_call(rows) ==
    /\ IF rows = <<>>
       THEN /\ probe' = Outcome("upsert_rows", rows, <<>>, NoException)
            /\ UNCHANGED collection
       ELSE IF _get_collection(chroma) # NoException
       THEN /\ probe' = Outcome("upsert_rows", rows, <<>>, _get_collection(chroma))
            /\ UNCHANGED collection
       ELSE /\ probe' = Outcome("upsert_rows", rows, <<>>, NoException)
            /\ collection' = upsert_rows(collection, rows)
    /\ UNCHANGED <<chroma, store>>
    /\ StoreOnly

NextStore ==
    \/ ainit
    \/ ainit_raise
    \/ aclose
    \/ aclose_raise
    \/ \E rows \in StoreInputs : find_duplicates_call(rows)
    \/ \E rows \in StoreInputs : upsert_rows_call(rows)

\* The store on its own: started, shut down and started again, and called directly
\* in every state of its handles.
SpecStore == Init /\ [][NextStore]_vars

\* ------------------------------------------------------------ the store's lifecycle, step by step
\* ainit without `async with self._lock`: a caller does not wait for the one inside.
ainit_enter_unlocked(c) ==
    /\ store.pc[c] = "idle"
    /\ IF chroma # "uninitialised"
       THEN /\ probe' = Outcome("ainit", <<c>>, <<"noop">>, NoException)
            /\ UNCHANGED store
       ELSE /\ store' = [store EXCEPT !.lock = c, !.pc[c] = "ainit_client"]
            /\ UNCHANGED probe
    /\ UNCHANGED <<chroma, collection>>
    /\ StoreOnly

\* ainit up to its first await: the caller takes _lock (it waits while another
\* caller holds it), returns if _client is set, and otherwise starts
\* chromadb.HttpClient in a thread.
ainit_enter(c) ==
    /\ store.pc[c] = "idle"
    /\ store.lock = None
    /\ IF chroma # "uninitialised"
       THEN /\ probe' = Outcome("ainit", <<c>>, <<"noop">>, NoException)
            /\ UNCHANGED store
       ELSE /\ store' = [store EXCEPT !.lock = c, !.pc[c] = "ainit_client"]
            /\ UNCHANGED probe
    /\ UNCHANGED <<chroma, collection>>
    /\ StoreOnly

\* The client arrives: self._client is set, get_or_create_collection starts.
ainit_client(c) ==
    /\ store.pc[c] = "ainit_client"
    /\ chroma' = "client_only"
    /\ store' = [store EXCEPT !.clients = @ + 1, !.pc[c] = "ainit_collection"]
    /\ UNCHANGED <<collection, probe>>
    /\ StoreOnly

\* The collection arrives: self._collection is set, _lock is released.
ainit_collection(c) ==
    /\ store.pc[c] = "ainit_collection"
    /\ chroma' = "ready"
    /\ store' = [store EXCEPT !.collections = @ + 1, !.lock = None, !.pc[c] = "idle"]
    /\ probe' = Outcome("ainit", <<c>>, <<"done">>, NoException)
    /\ UNCHANGED collection
    /\ StoreOnly

\* Either Chroma call of ainit raises: _lock is released, what was set stays set.
ainit_step_raise(c) ==
    /\ store.pc[c] \in {"ainit_client", "ainit_collection"}
    /\ store' = [store EXCEPT !.lock = None, !.pc[c] = "idle"]
    /\ probe' = Outcome("ainit", <<c>>, <<>>, ChromaError)
    /\ UNCHANGED <<chroma, collection>>
    /\ StoreOnly

\* aclose up to its await: the caller takes _lock, returns if _client is None,
\* and otherwise starts client.reset in a thread.
aclose_enter(c) ==
    /\ store.pc[c] = "idle"
    /\ store.lock = None
    /\ IF chroma = "uninitialised"
       THEN /\ probe' = Outcome("aclose", <<c>>, <<"noop">>, NoException)
            /\ UNCHANGED store
       ELSE /\ store' = [store EXCEPT !.lock = c, !.pc[c] = "aclose_reset"]
            /\ UNCHANGED probe
    /\ UNCHANGED <<chroma, collection>>
    /\ StoreOnly

\* client.reset() returns: the database is empty, both handles are dropped, _lock
\* is released.
aclose_reset(c) ==
    /\ store.pc[c] = "aclose_reset"
    /\ collection' = {}
    /\ chroma' = "uninitialised"
    /\ store' = [store EXCEPT !.clients = 0, !.collections = 0, !.lock = None, !.pc[c] = "idle"]
    /\ probe' = Outcome("aclose", <<c>>, <<"done">>, NoException)
    /\ StoreOnly

\* client.reset() raises: _lock is released, the handles stay.
aclose_reset_raise(c) ==
    /\ store.pc[c] = "aclose_reset"
    /\ store' = [store EXCEPT !.lock = None, !.pc[c] = "idle"]
    /\ probe' = Outcome("aclose", <<c>>, <<>>, ChromaError)
    /\ UNCHANGED <<chroma, collection>>
    /\ StoreOnly

\* The lists handed to the store while it is started and closed.
LifecycleInputs == {<<>>, <<_serialize(Row(1))>>, <<_serialize(Row(1)), _serialize(Row(2))>>}

NextLifecycle ==
    \/ \E c \in StoreCallers :
          \/ ainit_enter(c) \/ ainit_client(c) \/ ainit_collection(c) \/ ainit_step_raise(c)
          \/ aclose_enter(c) \/ aclose_reset(c) \/ aclose_reset_raise(c)
    \/ \E rows \in LifecycleInputs : find_duplicates_call(rows) \/ upsert_rows_call(rows)

\* Two callers starting and closing the store at the same time, while the store
\* is queried and written.
SpecLifecycle == Init /\ [][NextLifecycle]_vars

\* A provider that answers with at most the requested number of rows.
ShortResponses(requested) == {rows \in SeqsUpTo(RowUniverse, requested) : rows # <<>>}

_generate_chunk_short(t) == GenerateChunkFrom(t, ShortResponses(Requested(state[t])))

NextShort == create_task("t1") \/ RunnerStep("t1") \/ _generate_chunk_short("t1")

\* One task against a provider that never answers with more rows than asked for.
SpecShort == Init /\ [][NextShort]_vars

NextShutdown == create_task_concurrent("t1") \/ RunnerStep("t1") \/ _generate_chunk_short("t1") \/ ainit \/ aclose

\* One task running while the application shuts the store down (on_shutdown) and
\* starts it again (on_startup).
SpecShutdown == Init /\ [][NextShutdown]_vars

\* ---------------------------------------------------------------- row keys
\* Nested dicts: two fields in either insertion order, another value, one field.
NestedXY == <<"obj", << <<"x", <<"str", 1>> >>, <<"y", <<"int", 1>> >> >> >>
NestedYX == <<"obj", << <<"y", <<"int", 1>> >>, <<"x", <<"str", 1>> >> >> >>
NestedOther == <<"obj", << <<"x", <<"str", 2>> >>, <<"y", <<"int", 1>> >> >> >>
NestedX == <<"obj", << <<"x", <<"str", 1>> >> >> >>

KeyValuesA == {<<"str", 1>>, <<"str", 2>>}
KeyValuesB == {<<"int", 1>>, NestedXY, NestedYX, NestedOther, NestedX}

\* The rows whose keys are compared: fields a and b in either insertion order, and
\* rows with one of the two fields only.
KeyRows ==
    {<< <<"a", va>>, <<"b", vb>> >> : va \in KeyValuesA, vb \in KeyValuesB}
    \cup {<< <<"b", vb>>, <<"a", va>> >> : va \in KeyValuesA, vb \in KeyValuesB}
    \cup {<< <<"a", va>> >> : va \in KeyValuesA}
    \cup {<< <<"b", vb>> >> : vb \in KeyValuesB}

\* The key filter_new_rows looks a row up under: _hash_row(_serialize(row)).
row_key_call(row1, row2) ==
    /\ probe' = Outcome("_hash_row", <<row1, row2>>, <<_hash_row(_serialize(row1)), _hash_row(_serialize(row2))>>, NoException)
    /\ UNCHANGED <<chroma, collection, store>>
    /\ StoreOnly

NextRowKey == \E row1 \in KeyRows, row2 \in KeyRows : row_key_call(row1, row2)

\* The keys of any two rows, computed side by side.
SpecRowKey == Init /\ [][NextRowKey]_vars

\* ------------------------------------------------------- the output writer
\* The longest list of formats handed to the writer in a direct call.
MaxFormats == 2

\* The format lists a caller may pass: supported names in either case, a name the
\* writer does not know, repetitions.
WriterFormats == SeqsUpTo({"csv", "json", "CSV", "xml"}, MaxFormats)

\* The row lists a caller may pass.
WriterRows == {<<>>, <<RowA>>, <<RowA, RowB>>}

\* DatasetBuilder.write_outputs called with `rows` and `formats` while the disk works.
write_outputs_call(task_id, rows, formats) ==
    LET out == write_outputs(task_id, rows, formats, 0)
    IN /\ probe' = Outcome("write_outputs", <<rows, formats>>, out.output_map,
                           IF out.error = None THEN NoException ELSE <<"ValueError", out.error>>)
       /\ files' = files \cup out.written
       /\ UNCHANGED <<pc, tasks, request, state, frame, collection, stats, copilot, job, injector, lock, chroma, store, http>>

NextWriter == \E task_id \in Tasks, rows \in WriterRows, formats \in WriterFormats : write_outputs_call(task_id, rows, formats)

\* The writer called directly with any rows and formats.
SpecWriter == Init /\ [][NextWriter]_vars

\* ------------------------------------------------------------ declared types
\* The longest list of injected values of one column.
MaxInjected == 3

\* Declared types a schema can carry (ColumnSpec.data_type is a free string).
DeclaredTypes == {"Integer", "float", "decimal", "numeric", "string", "interval", "floating point"}

\* HybridNumericGenerator.should_handle called once with a column of type `data_type`.
should_handle_call(data_type) ==
    /\ probe = NoProbe
    /\ probe' = Outcome("should_handle", <<data_type>>, <<"bool", should_handle([name |-> "c", data_type |-> data_type])>>, NoException)
    /\ UNCHANGED <<pc, tasks, request, state, frame, collection, stats, files, copilot, job, injector, lock, chroma, store, http>>

\* HybridNumericGenerator.generate_column called once.
generate_column_call(data_type, row_count, offset) ==
    /\ probe = NoProbe
    /\ probe' = Outcome("generate_column", <<data_type, row_count, offset>>, generate_column([name |-> "c", data_type |-> data_type], row_count, offset), NoException)
    /\ UNCHANGED <<pc, tasks, request, state, frame, collection, stats, files, copilot, job, injector, lock, chroma, store, http>>

NextTyping ==
    \/ \E data_type \in DeclaredTypes : should_handle_call(data_type)
    \/ \E data_type \in DeclaredTypes, row_count \in 0..MaxInjected, offset \in 0..MaxInjected : generate_column_call(data_type, row_count, offset)

\* The numeric generator asked about, and run on, a column of any declared type.
SpecTyping == Init /\ [][NextTyping]_vars

\* ------------------------------------------------------------ overlay of injected values
\* Lists of injected values, shorter than, as long as and longer than the rows.
InjectedLists == SeqsUpTo({<<"int", 7>>, <<"e4", 8>>}, MaxInjected)

\* Dicts column -> values: none, one column the rows have ("b"), one they lack
\* ("c"), or both.
HybridValues ==
    {<<>>} \cup {<< <<c, v>> >> : c \in {"b", "c"}, v \in InjectedLists}
           \cup {<< <<"b", v>>, <<"c", w>> >> : v \in InjectedLists, w \in InjectedLists}

MergeRows == {<<>>, <<RowA>>, <<RowA, RowB>>, <<RowB, RowA2>>}

\* DatasetBuilder.merge_hybrid_values called once with `rows` and `hybrid_values`.
merge_hybrid_values_call(rows, hybrid_values) ==
    /\ probe = NoProbe
    /\ probe' = Outcome("merge_hybrid_values", <<rows, hybrid_values>>, merge_hybrid_values(rows, hybrid_values), NoException)
    /\ UNCHANGED <<pc, tasks, request, state, frame, collection, stats, files, copilot, job, injector, lock, chroma, store, http>>

NextMerge == \E rows \in MergeRows, hybrid_values \in HybridValues : merge_hybrid_values_call(rows, hybrid_values)

\* The overlay called directly with any rows and injected values.
SpecMerge == Init /\ [][NextMerge]_vars

\* ------------------------------------------------------------------- claims
\* The row key of a row: the id its serialised form is stored under.
RowKey(row) == _hash_row(_serialize(row))

\* The row keys of the rows a task has accumulated.
AcceptedKeys(t) == {RowKey(state[t].rows[i]) : i \in DOMAIN state[t].rows}

\* C1: whenever a task's registry status is succeeded, its progress_rows equals
\* its total_rows (the requested row_count), whatever the provider returned.
C1_SucceededMeetsTarget == \A t \in DOMAIN tasks : tasks[t].status = "succeeded" => tasks[t].progress_rows = tasks[t].total_rows

\* C2: the rows a task has accumulated never hold two rows with the same row key.
C2_NoDuplicateKeyInTask == \A t \in Tasks : \A i, j \in DOMAIN state[t].rows : i # j => RowKey(state[t].rows[i]) # RowKey(state[t].rows[j])

\* C3: with tasks running concurrently against one duplicate store, no row key is
\* accepted into the rows of two tasks.
C3_NoKeyInTwoTasks == \A t, u \in Tasks : t # u => AcceptedKeys(t) \cap AcceptedKeys(u) = {}

\* C4: against a provider that returns the same row on every call, a running task
\* does not stay running for ever: it ends after a bounded number of chunks.
C4_SameRowTerminates == \A t \in Tasks : (t \in DOMAIN tasks /\ tasks[t].status = "running") ~> (t \in DOMAIN tasks /\ tasks[t].status \in {"succeeded", "failed"})

\* C5: in every state of every task, progress_rows <= total_rows.
C5_ProgressWithinTarget == \A t \in DOMAIN tasks : tasks[t].progress_rows <= tasks[t].total_rows

\* The places of a run at which no progress update is pending or under way and the
\* GenerationState is alive.
ProgressSettled(t) ==
    \/ pc[t] \in {"generate_chunk", "llm", "dedupe_chunk", "upsert_rows", "track_rows_generated", "track_data_tokens", "finalise", "mark_succeeded", "track_task_completed"}
    \/ pc[t] = "done" /\ tasks[t].status = "succeeded"

\* C6: after every completed progress update, the registry's progress_rows is the
\* number of rows the task has accumulated; discarded duplicates are not counted.
C6_ProgressCountsAccepted == \A t \in DOMAIN tasks : ProgressSettled(t) => tasks[t].progress_rows = Len(state[t].rows)

\* A progress update completed for a chunk that lost rows as duplicates.
C6_Witness == \E t \in DOMAIN tasks : pc[t] = "track_rows_generated" /\ Len(state[t].chunk_rows) > frame[t].increment /\ tasks[t].progress_rows = Len(state[t].rows) /\ tasks[t].progress_rows > frame[t].increment

StatusSteps == {<<"queued", "running">>, <<"running", "succeeded">>, <<"running", "failed">>}

\* C7: a task is created queued, its status only moves queued -> running ->
\* succeeded | failed, progress is only recorded while running, and a status of
\* succeeded or failed never changes again.
C7_StatusOrder ==
    [][\A t \in Tasks :
          /\ (t \notin DOMAIN tasks /\ t \in DOMAIN tasks') => tasks'[t].status = "queued"
          /\ t \in DOMAIN tasks =>
                /\ t \in DOMAIN tasks'
                /\ tasks'[t].status = tasks[t].status \/ <<tasks[t].status, tasks'[t].status>> \in StatusSteps
                /\ tasks'[t].progress_rows # tasks[t].progress_rows => tasks[t].status = "running" /\ tasks'[t].status = "running"]_vars

\* A run that recorded progress has ended succeeded.
C7_Witness == \E t \in DOMAIN tasks : pc[t] = "done" /\ tasks[t].status = "succeeded" /\ tasks[t].progress_rows > 0

\* C8: error_message is set only on a failed task, and output_files is non-empty
\* only on a succeeded task.
C8_ErrorAndOutputsMatchStatus ==
    \A t \in DOMAIN tasks :
       /\ tasks[t].error_message # None => tasks[t].status = "failed"
       /\ tasks[t].output_files # <<>> => tasks[t].status = "succeeded"

\* A task failed while writing its outputs, after one of its files was written.
C8_Witness == \E t \in DOMAIN tasks : tasks[t].status = "failed" /\ tasks[t].error_message = "OSError" /\ \E f \in files : f[1] = t

\* C9: a failure during a run ends it failed with the failure's text, the run
\* takes no further step of the loop, and no artifact of the task is recorded in
\* output_files or written.
C9_FailureDiscardsRows ==
    \A t \in DOMAIN tasks :
       tasks[t].status = "failed" =>
          /\ tasks[t].error_message = frame[t].exc
          /\ pc[t] \in {"track_task_failed", "done"}
          /\ tasks[t].output_files = <<>>
          /\ \A f \in files : f[1] # t

\* C10: a failing metrics call never makes mark_failed record the task as failed.
C10_MetricsFailureHarmless == \A t \in DOMAIN tasks : ~(tasks[t].status = "failed" /\ tasks[t].error_message = MetricsError)

\* C11: a task is never marked failed because of the primary provider's errors
\* (a fallback serves the chunk instead).
C11_ProviderErrorNeverFailsTask == \A t \in DOMAIN tasks : ~(tasks[t].status = "failed" /\ tasks[t].error_message = "ProviderError")

\* The primary call of a generate_data_chunk call ended in a provider error or in
\* a malformed response.
PrimaryFailed ==
    \/ copilot.invoke_raised # NoException
    \/ copilot.data[1] \in {"object", "string"}
    \/ copilot.data[1] = "array" /\ \E i \in DOMAIN copilot.data[2] : copilot.data[2][i][1] # "object"

\* C12: when the primary call ends in a provider error or a malformed response,
\* generate_data_chunk does not raise: it returns the fallback generator's rows for
\* the same schema and row count.
C12_MalformedFallsBack ==
    (copilot.pc \in {"returned", "raised"} /\ PrimaryFailed) =>
        /\ copilot.pc = "returned"
        /\ copilot.result = fallback_generate_data_chunk(CopilotFields, Min(copilot.num_rows, MaxRowsPerCall))

\* C13 as stated: a call with num_rows above max_rows_per_call makes no remote
\* call, asks no fallback, returns no rows and ends in RowCountExceeded.
C13_AboveCeilingRaises ==
    copilot.num_rows > MaxRowsPerCall =>
        /\ copilot.prompts = <<>>
        /\ copilot.fallback_asked = <<>>
        /\ copilot.result = <<>>
        /\ copilot.pc \in {"returned", "raised"} => copilot.pc = "raised" /\ copilot.raised[1] = "RowCountExceeded"

\* C13 amended: a call with num_rows above max_rows_per_call never ends in
\* RowCountExceeded: every remote attempt and the fallback are asked for
\* max_rows_per_call rows and no more than max_rows_per_call rows are returned.
C13_AboveCeilingClamped ==
    copilot.num_rows > MaxRowsPerCall =>
        /\ copilot.raised[1] # "RowCountExceeded"
        /\ \A i \in DOMAIN copilot.prompts : copilot.prompts[i] = MaxRowsPerCall
        /\ \A i \in DOMAIN copilot.fallback_asked : copilot.fallback_asked[i] = MaxRowsPerCall
        /\ Len(copilot.result) <= MaxRowsPerCall

\* A call above the ceiling returned the ceiling's number of rows out of a longer array.
C13_Witness == copilot.num_rows > MaxRowsPerCall /\ copilot.pc = "returned" /\ copilot.data[1] = "array" /\ Len(copilot.data[2]) > MaxRowsPerCall /\ Len(copilot.result) = MaxRowsPerCall

\* The field names of a schema, and the keys of a row, in order.
FieldNames(fields) == [i \in DOMAIN fields |-> fields[i].name]

Keys(row) == [i \in DOMAIN row |-> row[i][1]]

\* C14: for every num_rows the primary and the fallback are asked for
\* min(num_rows, max_rows_per_call) rows, a call returns at most that many, and
\* every returned row has exactly the schema's field names as keys.
C14_ClampedAndSchemaKeys ==
    LET effective == Min(copilot.num_rows, MaxRowsPerCall)
    IN /\ \A i \in DOMAIN copilot.prompts : copilot.prompts[i] = effective
       /\ \A i \in DOMAIN copilot.fallback_asked : copilot.fallback_asked[i] = effective
       /\ Len(copilot.result) <= effective
       /\ \A i \in DOMAIN copilot.result : Keys(copilot.result[i]) = FieldNames(CopilotFields)

\* A call returned rows made of a surplus array that held an object with a foreign key.
C14_Witness == copilot.pc = "returned" /\ copilot.data[1] = "array" /\ Len(copilot.data[2]) > Len(copilot.result) /\ copilot.result # <<>> /\ \E i \in DOMAIN copilot.result : copilot.data[2][i] = ObjOther

\* C15: a call with num_rows <= max_rows_per_call that returns, returns exactly
\* num_rows rows, however many the remote response held.
C15_ExactlyRowCount == (copilot.pc = "returned" /\ copilot.num_rows <= MaxRowsPerCall) => Len(copilot.result) = copilot.num_rows

\* C16: one call attempts the remote at most 3 times; nothing is attempted after an
\* attempt succeeded or the attempts ran out; a failed attempt before the third
\* leads to another attempt; after the third failed attempt that attempt's own
\* failure leaves the retry wrapper.
C16_BoundedRetryReraises ==
    [][/\ Len(copilot'.prompts) <= 3
       /\ copilot.pc \notin {"idle", "invoke"} => copilot'.prompts = copilot.prompts
       /\ (copilot'.data # copilot.data /\ copilot.pc = "invoke") => copilot'.pc = "invoke_returned"
       /\ (Len(copilot'.errors) > Len(copilot.errors) /\ Len(copilot'.errors) < 3) => copilot'.pc = "invoke" /\ copilot'.invoke_raised = NoException
       /\ (Len(copilot'.errors) > Len(copilot.errors) /\ Len(copilot'.errors) = 3) => copilot'.pc = "invoke_raised" /\ copilot'.invoke_raised = copilot'.errors[3]]_vars

\* Three attempts failed, the first otherwise than the third, and the third's
\* failure left the wrapper.
C16_Witness == copilot.pc = "invoke_raised" /\ Len(copilot.errors) = 3 /\ copilot.errors[1] # copilot.errors[3] /\ copilot.invoke_raised = copilot.errors[3]

\* C17 as stated: the row counts of the calls the scheduler issues to the provider
\* are min(remaining, M) in order, none above M: [3,3,3] for R=9, M=3 and [3,3,1]
\* for R=7, M=3, ceil(R/M) calls whose sizes sum to R.
C17_CallsSizedWithinCeiling ==
    LET R == job.total_rows
        M == job.max_rows
    IN /\ \A i \in DOMAIN job.calls : job.calls[i] = Min(R - Sum(SubSeq(job.returned, 1, i - 1)), M) /\ job.calls[i] <= M
       /\ job.pc = "done" =>
             /\ Sum(job.calls) = R
             /\ Len(job.calls) = (R + M - 1) \div M
             /\ (R = 9 /\ M = 3) => job.calls = <<3, 3, 3>>
             /\ (R = 7 /\ M = 3) => job.calls = <<3, 3, 1>>

\* C17 amended: every call carries the remaining count, and the provider serves
\* min(remaining, M) rows of it, never more than M; when the chunk is done there
\* were ceil(R/M) calls and the served sizes sum to R: [3,3,3] for R=9, M=3 and
\* [3,3,1] for R=7, M=3.
C17_SubBatchSizes ==
    LET R == job.total_rows
        M == job.max_rows
        sizes == job.returned
    IN /\ Len(sizes) = Len(job.calls)
       /\ \A i \in DOMAIN sizes : job.calls[i] = R - Sum(SubSeq(sizes, 1, i - 1)) /\ sizes[i] = Min(job.calls[i], M) /\ sizes[i] <= M
       /\ job.pc = "done" =>
             /\ Sum(sizes) = R
             /\ Len(sizes) = (R + M - 1) \div M
             /\ (R = 9 /\ M = 3) => sizes = <<3, 3, 3>>
             /\ (R = 7 /\ M = 3) => sizes = <<3, 3, 1>>

\* A chunk of 7 rows against a ceiling of 3 is done.
C17_Witness == job.pc = "done" /\ job.total_rows = 7 /\ job.max_rows = 3 /\ job.returned = <<3, 3, 1>>

\* C18: against a provider that returns min(requested, M) rows per call, the row
\* counts passed to the provider are the remaining counts R, R-M, R-2M, ...,
\* strictly decreasing ([9, 6, 3] for R=9, M=3); the loop stops when nothing
\* remains and the chunk reports exactly R rows generated.
C18_RemainingCountsPassed ==
    LET R == job.total_rows
        M == job.max_rows
    IN /\ \A i \in DOMAIN job.calls : job.calls[i] = R - (i - 1) * M /\ job.calls[i] > 0
       /\ \A i \in DOMAIN job.calls : i > 1 => job.calls[i] < job.calls[i - 1]
       /\ job.pc = "done" <=> (job.calls # <<>> /\ job.remaining = 0)
       /\ job.pc = "done" => job.rows_generated = R
       /\ (job.pc = "done" /\ R = 9 /\ M = 3) => job.calls = <<9, 6, 3>>

\* A chunk of 9 rows against a ceiling of 3 is done.
C18_Witness == job.pc = "done" /\ job.total_rows = 9 /\ job.max_rows = 3 /\ job.calls = <<9, 6, 3>> /\ job.rows_generated = 9

C20_ConcurrentTasksIndependent ==
    /\ (\A t \in Tasks : t \in DOMAIN tasks) ~> (\A t \in Tasks : t \in DOMAIN tasks /\ tasks[t].status = "succeeded" /\ tasks[t].progress_rows = Len(state[t].rows))
    /\ [][\A t, u \in Tasks : (t # u /\ u \in DOMAIN tasks /\ pc'[t] # pc[t]) => (u \in DOMAIN tasks' /\ tasks'[u] = tasks[u])]_vars

\* Both tasks have succeeded with different numbers of rows, after runs that
\* overlapped: both asked the store about the same row before either recorded it.
C20_Witness ==
    /\ \A t \in Tasks : t \in DOMAIN tasks /\ pc[t] = "done" /\ tasks[t].status = "succeeded" /\ tasks[t].progress_rows = Len(state[t].rows)
    /\ tasks["t1"].progress_rows # tasks["t2"].progress_rows
    /\ AcceptedKeys("t1") \cap AcceptedKeys("t2") # {}

\* The places where a runner waits for a collaborator outside the registry: the
\* provider, the duplicate store, the metrics service, the output writer.
ExternalCalls == {"llm", "dedupe_chunk", "upsert_rows", "finalise", "track_task_created", "track_task_running",
                  "track_rows_generated", "track_data_tokens", "track_task_completed", "track_task_failed"}

\* C21: the registry lock is never held while a runner waits for the provider, the
\* duplicate store, the metrics service or the output writer, and every status read
\* waiting in get_task completes, whatever the runners do or fail to do (a provider
\* call that stays pending forever included).
C21_LockOnlyAroundRegistry ==
    /\ [](\A t \in Tasks : pc[t] \in ExternalCalls => lock = None)
    /\ (http.pc = "get_task" ~> http.pc = "done")

\* A status read for the second task answered while the first task's provider call
\* is pending.
C21_Witness ==
    /\ pc["t1"] = "llm"
    /\ "t2" \in DOMAIN tasks
    /\ http.pc = "done" /\ http.route = "status" /\ http.task_id = "t2"
    /\ http.response = <<"200", "queued">>

\* C27: the download route answers with an artifact only for a task that exists,
\* has status succeeded and has a location recorded for the requested format, and
\* then with that location; every other answer is NotFound (404).
C27_ArtifactOnlyWhenSucceeded ==
    [][(http.pc = "get_task" /\ http.route = "download" /\ http'.pc = "done") =>
          /\ http'.response[1] \in {"200", "404"}
          /\ http'.response[1] = "200" =>
                /\ http.task_id \in DOMAIN tasks
                /\ tasks[http.task_id].status = "succeeded"
                /\ http.format \in DOMAIN tasks[http.task_id].output_files
                /\ http'.response[2] = tasks[http.task_id].output_files[http.format]]_vars

\* An artifact of a succeeded task was served.
C27_Witness ==
    /\ http.pc = "done" /\ http.route = "download" /\ http.task_id = "t1"
    /\ http.response[1] = "200"
    /\ tasks["t1"].status = "succeeded"
\* A deduplication step that needs the store while the store cannot answer.
NeedsStore(t) ==
    \/ pc[t] = "dedupe_chunk" /\ state[t].chunk_rows # <<>>
    \/ pc[t] = "upsert_rows" /\ RowsToUpsert(state[t].chunk_rows, frame[t].duplicate_set) # <<>>

\* C22: when the duplicate store cannot answer while a chunk is deduplicated, the
\* step ends with the store's exception on its way to the runner, the task's rows
\* do not grow and its registry record (progress_rows included) is untouched; no
\* step out of deduplication towards failure appends or counts a row.
C22_StoreFailurePropagates ==
    [][\A t \in Tasks :
          /\ (NeedsStore(t) /\ chroma # "ready" /\ pc'[t] # pc[t]) =>
                /\ pc'[t] = "mark_failed"
                /\ frame'[t].exc = "Chroma collection not initialised"
          /\ (pc[t] \in {"dedupe_chunk", "upsert_rows"} /\ pc'[t] = "mark_failed") =>
                /\ tasks' = tasks
                /\ Len(state'[t].rows) <= Len(state[t].rows)
                /\ collection' = collection]_vars

\* A task failed by the store's exception after the store was shut down under it,
\* with a chunk accepted before and none after.
C22_Witness ==
    /\ "t1" \in DOMAIN tasks
    /\ tasks["t1"].status = "failed"
    /\ tasks["t1"].error_message = "Chroma collection not initialised"
    /\ chroma = "uninitialised"
    /\ tasks["t1"].progress_rows = 1
    /\ tasks["t1"].total_rows = 2

\* C23: find_duplicates and upsert_rows called with an empty list return the empty
\* result without an exception in every state of the store's handles.
C23_EmptyInputAlwaysSucceeds ==
    (probe.op \in {"find_duplicates", "upsert_rows"} /\ probe.args = <<>>) =>
        probe.raised = NoException /\ probe.result = <<>>

\* C24: no step removes an id from the collection.
C24_KeysOnlyGrow == [][collection \subseteq collection']_vars
\* Python's dict equality: the same field names, and under each name equal values
\* (nested dicts compared the same way), whatever the insertion order.
RECURSIVE DictEq(_, _)
DictEq(d1, d2) ==
    /\ {d1[i][1] : i \in DOMAIN d1} = {d2[j][1] : j \in DOMAIN d2}
    /\ \A i \in DOMAIN d1, j \in DOMAIN d2 :
          d1[i][1] = d2[j][1] =>
             LET v == d1[i][2]
                 w == d2[j][2]
             IN IF v[1] # w[1] THEN FALSE ELSE IF v[1] = "obj" THEN DictEq(v[2], w[2]) ELSE v[2] = w[2]

\* C25: two rows get the same key exactly when they are the same dict: the same
\* fields and values at every nesting level in any insertion order give one key,
\* and a difference in any field name or value gives different keys.
C25_KeyIgnoresInsertionOrder ==
    probe.op = "_hash_row" => ((probe.result[1] = probe.result[2]) <=> DictEq(probe.args[1], probe.args[2]))

\* One key for two rows whose fields, and the fields of whose nested dict, were
\* inserted in opposite orders.
C25_Witness ==
    /\ probe.op = "_hash_row"
    /\ probe.args = << << <<"a", <<"str", 1>> >>, <<"b", NestedXY>> >>, << <<"b", NestedYX>>, <<"a", <<"str", 1>> >> >> >>
    /\ probe.result[1] = probe.result[2]
\* The formats of a list that the writer supports, lower-cased as the writer does.
Supported(formats) == {Lower(formats[i]) : i \in DOMAIN formats} \cap {"csv", "json"}

\* C26: called with zero rows the writer fails exactly when csv is among the
\* requested formats (json alone, or no supported format, succeeds); whenever it
\* succeeds, with or without rows, the mapping it returns has exactly the requested
\* supported formats as keys.
C26_EmptyRowsFailOnlyForCsv ==
    probe.op = "write_outputs" =>
        LET rows == probe.args[1]
            formats == probe.args[2]
        IN /\ rows = <<>> => (("csv" \in Supported(formats)) <=> (probe.raised = <<"ValueError", "No rows available for CSV export">>))
           /\ rows = <<>> => (("csv" \notin Supported(formats)) <=> (probe.raised = NoException))
           /\ probe.raised = NoException => DOMAIN probe.result = Supported(formats)

\* The writer succeeded with zero rows for json alone.
C26_Witness ==
    /\ probe.op = "write_outputs"
    /\ probe.args = << <<>>, <<"json">> >>
    /\ probe.raised = NoException
    /\ DOMAIN probe.result = {"json"}
    /\ FilePath("t1", "json") \in files
\* C28: no step lowers a task's progress_rows, only mark_progress raises it, and
\* every progress update the orchestrator issues carries an increment of at least 1.
C28_ProgressNeverDecreases ==
    [][\A t \in DOMAIN tasks :
          /\ t \in DOMAIN tasks'
          /\ tasks'[t].progress_rows >= tasks[t].progress_rows
          /\ tasks'[t].progress_rows > tasks[t].progress_rows => pc[t] = "mark_progress"
          /\ (pc[t] # "mark_progress" /\ pc'[t] = "mark_progress") => frame'[t].increment >= 1]_vars

\* A second progress update is on its way for a task that already counted rows.
C28_Witness ==
    /\ "t1" \in DOMAIN tasks
    /\ pc["t1"] = "mark_progress"
    /\ tasks["t1"].progress_rows >= 1
    /\ frame["t1"].increment >= 1

\* C29: a running task whose progress_rows has reached total_rows issues no further
\* provider call.
C29_NoCallAfterTarget ==
    \A t \in DOMAIN tasks :
        (tasks[t].status = "running" /\ tasks[t].total_rows >= 1 /\ tasks[t].progress_rows = tasks[t].total_rows) => pc[t] # "llm"
\* C30: the step that ends the deduplication of a chunk all of whose rows are
\* duplicates goes to generate_chunk with remaining_rows > 0 and leaves the
\* registry as it is: such a chunk leads neither to finalisation nor to succeeded.
C30_AllDuplicatesContinue ==
    [][\A t \in Tasks :
          (/\ pc[t] = "upsert_rows"
           /\ state[t].chunk_rows # <<>>
           /\ FilteredRows(state[t].chunk_rows, frame[t].duplicate_set) = <<>>
           /\ pc'[t] # pc[t]) =>
              /\ pc'[t] = "generate_chunk"
              /\ state'[t].remaining_rows > 0
              /\ state'[t].rows = state[t].rows
              /\ tasks' = tasks]_vars

\* After one accepted row of two, a chunk of two duplicates came in answer to a
\* call for one row: remaining_rows, cut to 0 by the chunk, is back at 2 and the
\* loop is about to call the provider again.
C30_Witness ==
    /\ pc["t1"] = "generate_chunk"
    /\ request["t1"].row_count = 2
    /\ Len(state["t1"].rows) = 1
    /\ state["t1"].remaining_rows = 2
\* The node of the compiled graph a place of the runner lies in.
Node(label) ==
    CASE label \in {"generate_chunk", "llm"} -> "generate_chunk"
      [] label \in {"dedupe_chunk", "upsert_rows", "mark_progress", "track_rows_generated", "track_data_tokens"} -> "dedupe_chunk"
      [] label = "finalise" -> "finalise"
      [] OTHER -> "outside"

\* C31: a run enters generate_chunk first (from generate_dataset) and afterwards
\* only from dedupe_chunk; it enters dedupe_chunk only from generate_chunk; it
\* enters finalise only from dedupe_chunk and only with remaining_rows = 0; it
\* leaves every node only along the graph's edges or with an exception; after
\* finalise the run is over and no node is entered again.
C31_GraphOrder ==
    [][\A t \in Tasks :
          LET from == Node(pc[t])
              to == Node(pc'[t])
          IN /\ (from # "generate_chunk" /\ to = "generate_chunk") => (pc[t] = "generate_dataset" \/ from = "dedupe_chunk")
             /\ (from # "dedupe_chunk" /\ to = "dedupe_chunk") => from = "generate_chunk"
             /\ (from # "finalise" /\ to = "finalise") => (from = "dedupe_chunk" /\ state'[t].remaining_rows = 0)
             /\ (from = "generate_chunk" /\ to # from) => (to = "dedupe_chunk" \/ pc'[t] = "mark_failed")
             /\ (from = "dedupe_chunk" /\ to # from) => (to \in {"generate_chunk", "finalise"} \/ pc'[t] = "mark_failed")
             /\ (from = "finalise" /\ to # from) => pc'[t] \in {"mark_succeeded", "mark_failed"}
             /\ pc[t] \in {"mark_succeeded", "track_task_completed", "mark_failed", "track_task_failed", "done"} => to = "outside"]_vars

\* A run that entered finalise with remaining_rows = 0 and the two different rows
\* its request asked for.
C31_Witness ==
    /\ pc["t1"] = "finalise"
    /\ state["t1"].remaining_rows = 0
    /\ request["t1"].row_count = 2
    /\ Len(state["t1"].rows) = 2
    /\ state["t1"].rows[1] # state["t1"].rows[2]
\* C32: under a provider that returns at most the number of rows asked for, at
\* every place of a run between two chunks (before a provider call, while it is
\* pending, and on leaving the loop) the accepted rows and remaining_rows add up
\* to row_count; and remaining_rows is never negative.
C32_RowAccountingConserved ==
    \A t \in Tasks :
        /\ state[t].remaining_rows >= 0
        /\ pc[t] \in {"generate_chunk", "llm", "finalise", "mark_succeeded"} =>
               Len(state[t].rows) + state[t].remaining_rows = request[t].row_count

\* One row of two accepted and one still to come, after a chunk without survivors
\* (its tokens are counted and not yet reported) was added back.
C32_Witness ==
    /\ pc["t1"] = "generate_chunk"
    /\ request["t1"].row_count = 2
    /\ Len(state["t1"].rows) = 1
    /\ state["t1"].remaining_rows = 1
    /\ state["t1"].tokens_data > state["t1"].last_reported_tokens
\* C33: the registry's tokens_data of a succeeded task equals the tokens of all
\* provider calls of its run (those of chunks without survivors included); between
\* chunks it equals the tokens reported so far; every progress update carries a
\* delta >= 0 and, as increment, the number of rows the chunk added to the task.
C33_CostFullyReported ==
    /\ [](\A t \in DOMAIN tasks :
             /\ tasks[t].status = "succeeded" => tasks[t].tokens_data = state[t].tokens_data
             /\ pc[t] \in {"generate_chunk", "llm", "finalise", "mark_succeeded"} =>
                    (tasks[t].tokens_data = state[t].last_reported_tokens /\ state[t].last_reported_tokens <= state[t].tokens_data))
    /\ [][\A t \in Tasks :
             (pc[t] # "mark_progress" /\ pc'[t] = "mark_progress") =>
                 /\ frame'[t].delta >= 0
                 /\ frame'[t].increment = Len(state'[t].rows) - Len(state[t].rows)
                 /\ frame'[t].increment = Len(FilteredRows(state[t].chunk_rows, frame[t].duplicate_set))]_vars

\* A succeeded task whose run cost a token, all of it in the registry and in the
\* statistics.
C33_Witness ==
    /\ "t1" \in DOMAIN tasks
    /\ tasks["t1"].status = "succeeded"
    /\ state["t1"].tokens_data = 1
    /\ tasks["t1"].tokens_data = 1
    /\ stats.total_data_tokens = 1
\* C34: a chunk with survivors calls the numeric generator exactly when injection
\* was requested, after the survivors' keys are in the store, with row_count = the
\* number of survivors and offset = the number of rows accepted before the chunk;
\* the chunk then leaves offset + row_count rows accepted and the accepted rows of
\* a run never get fewer, so a later chunk with survivors has a larger offset. A
\* chunk without survivors adds no row.
C34_InjectorOnSurvivorsAtOffset ==
    [][\A t \in Tasks :
          LET filtered == FilteredRows(state[t].chunk_rows, frame[t].duplicate_set)
              call == frame'[t].hybrid
          IN /\ (pc[t] = "upsert_rows" /\ pc'[t] = "mark_progress") =>
                   /\ call.called = request[t].use_hybrid_numeric
                   /\ call.called =>
                         /\ call.row_count = Len(filtered) /\ call.row_count >= 1
                         /\ call.offset = Len(state[t].rows)
                         /\ Len(state'[t].rows) = call.offset + call.row_count
                         /\ \A i \in DOMAIN filtered : RowKey(filtered[i]) \in collection'
             /\ (pc[t] = "upsert_rows" /\ filtered = <<>> /\ pc'[t] # "mark_failed") => state'[t].rows = state[t].rows
             /\ (Node(pc[t]) # "outside" /\ Node(pc'[t]) # "outside") => Len(state'[t].rows) >= Len(state[t].rows)]_vars

\* The generator was called for the survivor of a second chunk, at offset 1.
C34_Witness ==
    /\ pc["t1"] = "mark_progress"
    /\ frame["t1"].hybrid = [called |-> TRUE, row_count |-> 1, offset |-> 1]
    /\ Len(state["t1"].rows) = 2
\* C35: merge_hybrid_values returns as many rows as it was given, in the same
\* order; in row i a column holds the injected value i of that column when there
\* is one and the value it had before otherwise, and the row has no other column.
\* Injected values beyond the last row appear nowhere.
C35_OverlayByPosition ==
    probe.op = "merge_hybrid_values" =>
        LET rows == probe.args[1]
            hybrid_values == probe.args[2]
            out == probe.result
            Has(i, c) == \E k \in DOMAIN hybrid_values : hybrid_values[k][1] = c /\ i <= Len(hybrid_values[k][2])
            Injected(i, c) == Get(hybrid_values, c)[i]
        IN /\ Len(out) = Len(rows)
           /\ \A i \in DOMAIN rows :
                 /\ Range(Keys(out[i])) = Range(Keys(rows[i])) \cup {c \in {"b", "c"} : Has(i, c)}
                 /\ Len(out[i]) = Cardinality(Range(Keys(out[i])))
                 /\ \A c \in Range(Keys(out[i])) : Get(out[i], c) = IF Has(i, c) THEN Injected(i, c) ELSE Get(rows[i], c)

\* Two rows, three values for a column they have and one for a column they lack:
\* the first row got both, the second only the first column, the third value went nowhere.
C35_Witness ==
    /\ probe.op = "merge_hybrid_values"
    /\ probe.args = << <<RowA, RowB>>, << <<"b", << <<"int", 7>>, <<"e4", 8>>, <<"int", 7>> >> >>, <<"c", << <<"e4", 8>> >> >> >> >>
    /\ probe.result = << << <<"a", <<"str", 1>> >>, <<"b", <<"int", 7>> >>, <<"c", <<"e4", 8>> >> >>,
                         << <<"a", <<"str", 2>> >>, <<"b", <<"e4", 8>> >> >> >>
\* The numeric family a declared type names: an interval is not a number, a
\* floating point column is a float column.
Family(data_type) ==
    CASE data_type = "Integer" -> "integer" [] data_type \in {"float", "floating point"} -> "float"
      [] data_type = "decimal" -> "decimal" [] data_type = "numeric" -> "numeric" [] OTHER -> "none"

\* C36: should_handle is true exactly for the columns whose declared type is of a
\* numeric family; generate_column gives whole numbers for an integer column and
\* values of the fractional branch for a float or decimal column.
C36_SelectsAndTypesByFamily ==
    /\ probe.op = "should_handle" => probe.result = <<"bool", Family(probe.args[1]) # "none">>
    /\ probe.op = "generate_column" =>
          /\ Family(probe.args[1]) = "integer" => \A i \in DOMAIN probe.result : probe.result[i][1] = "int"
          /\ Family(probe.args[1]) \in {"float", "decimal"} => \A i \in DOMAIN probe.result : probe.result[i][1] = "e4"
\* C37: the step in which a provider response turns out unusable changes neither
\* the registry (progress, tokens), the metrics, the Duplicate Store nor the files,
\* and hands the run to mark_failed; the next step of the task records status
\* failed with the error's text and changes no progress or token count, so no
\* progress update follows the failing call; a failed task stays failed.
C37_UnusableResponseContributesNothing ==
    [][\A t \in Tasks :
          /\ (pc[t] = "llm" /\ frame'[t].exc \in GenerateErrors) =>
                /\ tasks' = tasks /\ stats' = stats /\ collection' = collection /\ files' = files
                /\ pc'[t] = "mark_failed"
          /\ (pc[t] = "mark_failed" /\ frame[t].exc \in GenerateErrors /\ pc'[t] # pc[t]) =>
                /\ tasks'[t] = [tasks[t] EXCEPT !.status = "failed", !.error_message = frame[t].exc]
                /\ collection' = collection /\ files' = files
                /\ stats'.generated_rows = stats.generated_rows /\ stats'.total_data_tokens = stats.total_data_tokens
          /\ (t \in DOMAIN tasks /\ tasks[t].status = "failed" /\ tasks[t].error_message \in GenerateErrors) => tasks'[t] = tasks[t]]_vars

\* A run that had one row accepted and reported got an unusable response for its
\* second chunk: the task is failed, the first row's progress and key are kept.
C37_Witness ==
    /\ "t1" \in DOMAIN tasks
    /\ tasks["t1"].status = "failed" /\ tasks["t1"].error_message = "Generated rows payload must be a list"
    /\ tasks["t1"].progress_rows = 1 /\ stats.generated_rows = 1 /\ Cardinality(collection) = 1
\* C38: no step of the pipeline removes a key from the Duplicate Store, the step
\* that marks a task failed included; the query of a chunk reports every row of
\* the chunk whose key is in the store, whichever task recorded it, and the chunk
\* accepts at most its other rows.
C38_FailedTaskKeysStay ==
    [][/\ collection \subseteq collection'
       /\ \A t \in Tasks :
             /\ (t \in DOMAIN tasks /\ tasks'[t].status = "failed" /\ tasks[t].status # "failed") => collection' = collection
             /\ (pc[t] = "dedupe_chunk" /\ pc'[t] = "upsert_rows") =>
                   frame'[t].duplicate_set = {_serialize(state[t].chunk_rows[i]) : i \in {j \in DOMAIN state[t].chunk_rows : RowKey(state[t].chunk_rows[j]) \in collection}}
             /\ (pc[t] = "upsert_rows" /\ pc'[t] # "mark_failed") =>
                   Len(state'[t].rows) - Len(state[t].rows) <= Cardinality({i \in DOMAIN state[t].chunk_rows : _serialize(state[t].chunk_rows[i]) \notin frame[t].duplicate_set})]_vars

\* Task t1 recorded the key of a row and then failed; nothing was published; task
\* t2, which has accepted no row yet, got the same row and its query reports it as
\* a duplicate.
C38_Witness ==
    /\ DOMAIN tasks = {"t1", "t2"}
    /\ tasks["t1"].status = "failed" /\ tasks["t1"].progress_rows = 1
    /\ files = {} /\ tasks["t2"].status = "running" /\ tasks["t2"].progress_rows = 0 /\ state["t2"].rows = <<>>
    /\ pc["t2"] = "upsert_rows"
    /\ state["t2"].chunk_rows = <<RowA>> /\ RowKey(RowA) \in collection
    /\ frame["t2"].duplicate_set = {_serialize(RowA)}
\* No task is between the registry update of a TaskManager operation and the
\* metrics call that ends the operation.
NoRegistryOperation == \A t \in Tasks : pc[t] \notin {"track_task_created", "track_task_running", "track_task_completed", "track_task_failed"}

\* The number of tasks the registry holds with `status`.
TasksWith(status) == Cardinality({t \in DOMAIN tasks : tasks[t].status = status})

\* C39: tasks_running is never negative; while no registry operation is in
\* progress, tasks_running, tasks_completed and tasks_failed are the numbers of
\* tasks whose registry status is running, succeeded and failed.
C39_CountersMatchRegistry ==
    /\ stats.tasks_running >= 0
    /\ NoRegistryOperation =>
          /\ stats.tasks_running = TasksWith("running")
          /\ stats.tasks_completed = TasksWith("succeeded")
          /\ stats.tasks_failed = TasksWith("failed")

\* One task failed while the other is still running, and both operations are over.
C39_Witness ==
    /\ NoRegistryOperation /\ DOMAIN tasks = {"t1", "t2"}
    /\ tasks["t1"].status = "failed" /\ tasks["t2"].status = "running"
    /\ stats.tasks_running = 1 /\ stats.tasks_failed = 1 /\ stats.tasks_completed = 0
\* C40: between two closings of the store at most one client and one collection
\* handle are created, and a ready store has exactly one of each, however the
\* callers of ainit and aclose interleave; a caller creates only on a store
\* without client and resets only a store with one, holding the store's lock; a
\* call that returns without having waited for Chroma is an ainit on a store with
\* a client or an aclose on a store without one, and changes nothing; find_duplicates and upsert_rows called with a non-empty list on a
\* store that is not ready raise and change nothing.
C40_LifecycleSafe ==
    /\ [](/\ store.clients <= 1 /\ store.collections <= 1
          /\ chroma = "ready" => (store.clients = 1 /\ store.collections = 1)
          /\ \A c \in StoreCallers :
                /\ store.pc[c] = "ainit_client" => (chroma = "uninitialised" /\ store.lock = c /\ store.clients = 0)
                /\ store.pc[c] = "ainit_collection" => (chroma = "client_only" /\ store.lock = c /\ store.collections = 0)
                /\ store.pc[c] = "aclose_reset" => (chroma # "uninitialised" /\ store.lock = c))
    /\ [][(probe'.op \in {"ainit", "aclose"} /\ (probe.op # probe'.op \/ probe # probe') /\ probe'.raised = NoException) =>
             IF store.pc[probe'.args[1]] = "idle"
             THEN /\ probe'.result = <<"noop">> /\ UNCHANGED <<chroma, collection, store>>
                  /\ (probe'.op = "ainit") = (chroma # "uninitialised")
             ELSE probe'.result = <<"done">>]_vars
    /\ [][(probe'.op \in {"find_duplicates", "upsert_rows"} /\ (probe.op # probe'.op \/ probe # probe') /\ probe'.args # <<>> /\ chroma # "ready") =>
             /\ probe'.raised = <<"RuntimeError", "Chroma collection not initialised">>
             /\ probe'.result = <<>>
             /\ collection' = collection]_vars

\* The store was closed and caller c1 is starting it again: it holds the lock, the
\* client exists, the collection does not yet, and an upsert_rows of one row
\* ended with the RuntimeError.
C40_Witness ==
    /\ store.pc["c1"] = "ainit_collection" /\ store.lock = "c1" /\ store.pc["c2"] = "idle"
    /\ store.clients = 1 /\ store.collections = 0 /\ chroma = "client_only"
    /\ probe = Outcome("upsert_rows", <<_serialize(Row(1))>>, <<>>, <<"RuntimeError", "Chroma collection not initialised">>)
====
